---- MODULE Spec2Model ----
(***************************************************************************)
(* The animation timeline hook (useAnimationTimeline) with its shape       *)
(* registry, handle protocol and render pass, on top of a small model of   *)
(* what it runs on: React state with batched updater queues, refs,         *)
(* effects that run after a commit, and a single-threaded event loop with  *)
(* one-shot timers.  One unit of time stands for 50 ms.                    *)
(***************************************************************************)
EXTENDS Integers, Sequences, FiniteSets, TLC

\* ------------------------------------------------------------------------
\* Bounds of the exploration
\* ------------------------------------------------------------------------
MaxTime == 8
MaxQueue == 3
\* largest elapsed time the tween calculator is applied to, besides the samples
MaxElapsed == 4

\* ------------------------------------------------------------------------
\* Program constants
\* ------------------------------------------------------------------------
\* first value of the clock (Date.now() is never 0, so timestamps are truthy)
Epoch == 1
\* setTimeout(resolve, 50) at the end of remove(), in units of 50 ms
SettleDelay == 1
\* Math.max() of an empty list is -Infinity; any negative number stands for it
NegInfinity == -1
\* initial value of shapeIdCounterRef
InitialId == 0

NoTime == -1
NoIndex == -1
\* Scene.duration is optional: the value of a scene that declares none
NoDuration == -1

\* ------------------------------------------------------------------------
\* Animation specs (AnimateOptions): undefined, or a list of effects
\* ------------------------------------------------------------------------
Undefined == [defined |-> FALSE, effects |-> <<>>]
Anim(effs) == [defined |-> TRUE, effects |-> effs]

\* an AnimationEffect; hasOffset tells the Position pattern of a slide from
\* the direction + distance pattern
\* Animate.fadeIn(duration), Animate.fadeOut(duration)
Fade(d) ==
  [type |-> "fade", duration |-> d, hasOffset |-> FALSE, x |-> 0, y |-> 0,
   direction |-> "none", distance |-> 0]
\* Animate.slideFrom(new Position(x, y), duration), Animate.slideTo(...)
SlideBy(x, y, d) ==
  [type |-> "slide", duration |-> d, hasOffset |-> TRUE, x |-> x, y |-> y,
   direction |-> "none", distance |-> 0]
\* Animate.slideFrom(direction, distance, duration), Animate.slideTo(...)
SlideFrom(direction, distance, d) ==
  [type |-> "slide", duration |-> d, hasOffset |-> FALSE, x |-> 0, y |-> 0,
   direction |-> direction, distance |-> distance]
Slide(d) == SlideFrom("left", 2, d)

Max2(a, b) == IF a >= b THEN a ELSE b

RECURSIVE MaxOfDurations(_)
MaxOfDurations(effs) ==
  IF effs = <<>> THEN NegInfinity
  ELSE Max2(Head(effs).duration, MaxOfDurations(Tail(effs)))

\* remove(): const maxDuration = exitAnim ? Math.max(...durations) : 0
maxDuration(exitAnim) ==
  IF exitAnim.defined THEN MaxOfDurations(exitAnim.effects) ELSE 0

\* ------------------------------------------------------------------------
\* Scene scripts: the choreography routines the timelines are built from
\* ------------------------------------------------------------------------
\* api.rect(x, y, ...) and the other factories: the anchor the shape is created at
IAddAt(h, x, y, ain, aout) ==
  [op |-> "add", h |-> h, animIn |-> ain, animOut |-> aout, d |-> 0, x |-> x, y |-> y]
\* the shape of handle h sits at (10 h, 10 h + 5) unless the script says otherwise
IAdd(h, ain, aout) == IAddAt(h, 10 * h, 10 * h + 5, ain, aout)
IWait(d) ==
  [op |-> "wait", h |-> 0, animIn |-> Undefined, animOut |-> Undefined, d |-> d,
   x |-> 0, y |-> 0]
IRemove(h, a) ==
  [op |-> "remove", h |-> h, animIn |-> Undefined, animOut |-> a, d |-> 0,
   x |-> 0, y |-> 0]
\* handle.remove(animation) without await: the routine goes on at once
IRemoveDetached(h, a) ==
  [op |-> "removeDetached", h |-> h, animIn |-> Undefined, animOut |-> a, d |-> 0,
   x |-> 0, y |-> 0]
IClear ==
  [op |-> "clear", h |-> 0, animIn |-> Undefined, animOut |-> Undefined, d |-> 0,
   x |-> 0, y |-> 0]
IThrow ==
  [op |-> "throw", h |-> 0, animIn |-> Undefined, animOut |-> Undefined, d |-> 0,
   x |-> 0, y |-> 0]
\* api.getCanvas() and api.getRoughCanvas()
Accessors == {"getCanvas", "getRoughCanvas"}
IAccessor(name) ==
  [op |-> name, h |-> 0, animIn |-> Undefined, animOut |-> Undefined, d |-> 0,
   x |-> 0, y |-> 0]
\* handle.getPosition()
IGetPosition(h) ==
  [op |-> "getPosition", h |-> h, animIn |-> Undefined, animOut |-> Undefined, d |-> 0,
   x |-> 0, y |-> 0]

ScriptA ==
  << IAdd(1, Anim(<<Fade(1)>>), Anim(<<Fade(1), Slide(3)>>)),
     IWait(1),
     IRemove(1, Undefined),
     IAdd(2, Undefined, Undefined),
     IRemove(2, Undefined) >>

ScriptB ==
  << IAdd(1, Undefined, Anim(<<Fade(1)>>)),
     IAdd(2, Anim(<<Fade(2)>>), Anim(<<Slide(2)>>)),
     IWait(1),
     IRemove(1, Anim(<<Fade(3)>>)),
     IRemove(2, Undefined),
     IClear >>

\* add A, add B, remove A, add A again; the routine then returns
ScriptC ==
  << IAdd(1, Undefined, Undefined),
     IAdd(2, Undefined, Undefined),
     IRemove(1, Undefined),
     IAdd(1, Undefined, Undefined) >>

\* a routine that faults after a suspension
ScriptD ==
  << IAdd(1, Anim(<<Fade(1)>>), Undefined),
     IWait(1),
     IThrow >>

\* a routine that faults before its first suspension
ScriptE ==
  << IAdd(1, Undefined, Undefined),
     IThrow >>

\* a routine that sleeps across the end of its scene and then asks for the
\* canvas outside a render pass
ScriptF ==
  << IAdd(1, Undefined, Anim(<<Fade(2)>>)),
     IAdd(2, Undefined, Undefined),
     IWait(3),
     IAccessor("getCanvas") >>

\* a routine that removes a shape that has nothing to animate and then asks
\* for the rough canvas while its scene is current
ScriptG ==
  << IAddAt(1, 30, 40, Anim(<<Slide(1)>>), Undefined),
     IAddAt(2, 50, 60, Undefined, Undefined),
     IWait(1),
     IRemove(2, Undefined),
     IAccessor("getRoughCanvas") >>

\* a routine that reads the position of its shape while it enters, after
\* clearShapes(), and after the removal it awaited
ScriptH ==
  << IAddAt(1, 70, 80, Anim(<<Slide(1)>>), Anim(<<Fade(2)>>)),
     IGetPosition(1),
     IClear,
     IGetPosition(1),
     IAddAt(2, 90, 100, Undefined, Undefined),
     IRemove(1, Undefined),
     IGetPosition(2),
     IGetPosition(1) >>

\* a routine that calls remove() twice on one handle, the second time with
\* another exit spec while the first exit is under way
ScriptI ==
  << IAdd(1, Undefined, Anim(<<Fade(2)>>)),
     IRemoveDetached(1, Undefined),
     IWait(1),
     IRemove(1, Anim(<<Fade(3)>>)) >>

Scene(dur, script) == [duration |-> dur, draw |-> script]

Timelines ==
  { << Scene(3, ScriptA) >>,
    << Scene(3, ScriptA), Scene(2, ScriptB) >>,
    << Scene(2, ScriptB), Scene(3, ScriptA) >>,
    << Scene(0, ScriptB), Scene(2, ScriptC) >>,
    << Scene(NoDuration, ScriptC) >>,
    << Scene(2, ScriptD), Scene(1, ScriptE) >>,
    << Scene(2, ScriptF), Scene(3, ScriptG) >>,
    << Scene(NoDuration, ScriptH) >>,
    << Scene(2, ScriptH), Scene(2, ScriptB) >>,
    << Scene(NoDuration, ScriptI) >> }

NumHandles == 2

\* ------------------------------------------------------------------------
\* State
\* ------------------------------------------------------------------------
VARIABLES
  scenes,             \* timeline.getScenes()
  loop,               \* timeline.getLoop()
  now,                \* Date.now()
  mounted,            \* the hook's effects have run for the first render
  currentSceneIndex,  \* useState(0), committed value
  pendingIndex,       \* value queued by setCurrentSceneIndex, NoIndex if none
  shapes,             \* useState<Shape[]>([]), committed value
  queue,              \* updaters queued by setShapes since the last commit
  shapesRef,          \* shapesRef.current
  sceneStartTimeRef,
  sceneExecutedRef,
  shapeIdCounterRef,
  shapeMetadataRef,   \* Map: id -> [animateOut, x, y]
  removingShapesRef,  \* Map: id -> [removedAt, animateOut]
  timers,             \* the scene effect's timeouts pending in the browser
  routines,           \* every invocation of a scene's draw(api)
  removals,           \* every invocation of handle.remove()
  lastFrame,          \* uids of the shapes painted by the last draw()
  registryGen,        \* history: number of nextScene() calls so far
  nextUid,            \* history: serial number of the next created shape
  halted,             \* history: nextScene() found no scene to advance to
  tween,              \* one application of the tween calculator: arguments, result
  value,              \* Duration and Position objects made so far, and the last call
  canvas,             \* one render pass: the shapes, the 2D context, the calls made
  factory             \* one call of a shape factory: the arguments, and whether it ran

vars == << scenes, loop, now, mounted, currentSceneIndex, pendingIndex, shapes,
           queue, shapesRef, sceneStartTimeRef, sceneExecutedRef,
           shapeIdCounterRef, shapeMetadataRef, removingShapesRef, timers,
           routines, removals, lastFrame, registryGen, nextUid, halted, tween,
           value, canvas, factory >>

\* the state of the hook
hook == << scenes, loop, now, mounted, currentSceneIndex, pendingIndex, shapes,
           queue, shapesRef, sceneStartTimeRef, sceneExecutedRef,
           shapeIdCounterRef, shapeMetadataRef, removingShapesRef, timers,
           routines, removals, lastFrame, registryGen, nextUid, halted >>

NoTimer == [due |-> NoTime, idx |-> NoIndex]

\* the timeout armed by the latest run of the scene effect, while it is
\* pending: the `timer` of that run's closure
sceneTimer ==
  IF \E t \in timers : t.entry = Len(routines)
  THEN LET t == CHOOSE t \in timers : t.entry = Len(routines)
       IN  [due |-> t.due, idx |-> t.idx]
  ELSE NoTimer

\* ------------------------------------------------------------------------
\* Map (the two metadata refs)
\* ------------------------------------------------------------------------
EmptyMap == << >>
MapHas(m, k) == k \in DOMAIN m
MapSet(m, k, v) == [x \in (DOMAIN m) \cup {k} |-> IF x = k THEN v ELSE m[x]]
MapDelete(m, k) == [x \in (DOMAIN m) \ {k} |-> m[x]]

\* ------------------------------------------------------------------------
\* setShapes updaters and how a render applies the queued ones in order
\* ------------------------------------------------------------------------
NoShape == [id |-> 0, uid |-> 0, x |-> 0, y |-> 0, state |-> "visible", addedAt |-> NoTime,
            removedAt |-> NoTime, animateIn |-> Undefined, animateOut |-> Undefined]

UAdd(shape) == [op |-> "add", id |-> shape.id, shape |-> shape, at |-> NoTime, anim |-> Undefined]
UExit(id, at, anim) == [op |-> "exit", id |-> id, shape |-> NoShape, at |-> at, anim |-> anim]
UFilter(id) == [op |-> "filter", id |-> id, shape |-> NoShape, at |-> NoTime, anim |-> Undefined]
UClear == [op |-> "clear", id |-> 0, shape |-> NoShape, at |-> NoTime, anim |-> Undefined]
UVisible(id) == [op |-> "visible", id |-> id, shape |-> NoShape, at |-> NoTime, anim |-> Undefined]

\* remove(): prev.map(s => s.id === shapeId ? {...s, state: "exiting", removedAt: now,
\*                                             animateOut: animateOpts || s.animateOut} : s)
markExiting(s, u) ==
  IF s.id = u.id
  THEN [s EXCEPT !.state = "exiting", !.removedAt = u.at,
                 !.animateOut = IF u.anim.defined THEN u.anim ELSE @]
  ELSE s

\* draw(): prev.map(s => s.id === shape.id ? {...s, state: "visible"} : s)
markVisible(s, u) ==
  IF s.id = u.id THEN [s EXCEPT !.state = "visible"] ELSE s

applyUpdate_addInFront(prev, u) ==
  CASE u.op = "add" -> << u.shape >> \o prev
    [] u.op = "exit" -> [i \in 1..Len(prev) |-> markExiting(prev[i], u)]
    [] u.op = "filter" -> SelectSeq(prev, LAMBDA s : s.id # u.id)
    [] u.op = "clear" -> << >>
    [] u.op = "visible" -> [i \in 1..Len(prev) |-> markVisible(prev[i], u)]

applyUpdate(prev, u) ==
  CASE u.op = "add" -> Append(prev, u.shape)
    [] u.op = "exit" -> [i \in 1..Len(prev) |-> markExiting(prev[i], u)]
    [] u.op = "filter" -> SelectSeq(prev, LAMBDA s : s.id # u.id)
    [] u.op = "clear" -> << >>
    [] u.op = "visible" -> [i \in 1..Len(prev) |-> markVisible(prev[i], u)]

RECURSIVE applyQueue(_, _)
applyQueue(prev, q) ==
  IF q = << >> THEN prev ELSE applyQueue(applyUpdate(prev, Head(q)), Tail(q))

\* ------------------------------------------------------------------------
\* Routines (invocations of scene.draw(api)) and removals (of handle.remove())
\* ------------------------------------------------------------------------
NoHandles == [h \in 1..NumHandles |-> 0]

\* Position.at(x, y), Position.zero()
At(x, y) == [x |-> x, y |-> y]
Zero == At(0, 0)
NoPosition == [none |-> TRUE]
NoError == ""

\* error is the message the routine's promise rejected with, position the last
\* result of getPosition(); history fields: stretch counts the synchronous
\* stretches of the routine, made lists the shapes it created with the id,
\* the number of scene switches before, the position in the script, the
\* stretch and the anchor of each, sleptAt is the time of its last call of wait()
NewRoutine(idx) ==
  [scene |-> idx, gen |-> registryGen, startedAt |-> now, pc |-> 1,
   status |-> "running", wake |-> NoTime, handles |-> NoHandles, handleUids |-> NoHandles,
   awaiting |-> 0, error |-> NoError, position |-> NoPosition, stretch |-> 1,
   made |-> << >>, sleptAt |-> NoTime]

Running == \E r \in 1..Len(routines) : routines[r].status = "running"

Script(r) == scenes[routines[r].scene + 1].draw

removalReady_whileTracked(c) ==
  /\ removals[c].due <= now
  /\ removals[c].phase = "anim" => MapHas(removingShapesRef, removals[c].id)

\* await new Promise(resolve => setTimeout(resolve, ...)) inside remove(): the
\* continuation is ready when the timer's time has come, whatever else happened
removalReady(c) == removals[c].due <= now

TimerDue ==
  \/ \E t \in timers : t.due <= now
  \/ \E r \in 1..Len(routines) :
       routines[r].status = "waiting" /\ routines[r].wake <= now
  \/ \E c \in 1..Len(removals) :
       removals[c].phase \in {"anim", "settle"} /\ removalReady(c)

CommitPending == queue # << >> \/ pendingIndex # NoIndex

\* the hook after construction: useState and useRef initial values
HookInit ==
  /\ now = Epoch
  /\ mounted = FALSE
  /\ currentSceneIndex = 0
  /\ pendingIndex = NoIndex
  /\ shapes = <<>>
  /\ queue = <<>>
  /\ shapesRef = <<>>
  /\ sceneStartTimeRef = Epoch
  /\ sceneExecutedRef = FALSE
  /\ shapeIdCounterRef = InitialId
  /\ shapeMetadataRef = EmptyMap
  /\ removingShapesRef = EmptyMap
  /\ timers = {}
  /\ routines = <<>>
  /\ removals = <<>>
  /\ lastFrame = <<>>
  /\ registryGen = 0
  /\ nextUid = 1
  /\ halted = FALSE

NoTween == [done |-> FALSE]
NoValue == [heap |-> << >>]
NoCanvas == [done |-> TRUE]
NoFactory == [done |-> TRUE]

Init ==
  /\ scenes \in Timelines
  /\ loop \in BOOLEAN
  /\ tween = NoTween
  /\ value = NoValue
  /\ factory = NoFactory
  /\ canvas = NoCanvas
  /\ HookInit

\* ------------------------------------------------------------------------
\* The scene execution effect
\* ------------------------------------------------------------------------
armSceneTimer_late(duration, idx) ==
  IF duration # NoDuration /\ duration # 0 THEN [due |-> now + duration + 1, idx |-> idx] ELSE NoTimer

\* if (scene.duration) { const timer = setTimeout(() => nextScene(), scene.duration) }
armSceneTimer(duration, idx) ==
  IF duration # NoDuration /\ duration # 0 THEN [due |-> now + duration, idx |-> idx] ELSE NoTimer

\* useEffect(..., [currentSceneIndex, nextScene]); nextScene is memoised on
\* [currentSceneIndex, scenes.length, loop], of which only the index varies
effectDepsChanged(oldIdx, newIdx) == oldIdx # newIdx

\* setTimeout(() => nextScene(), scene.duration) by the entry-th run of the
\* scene effect: one more pending timeout, if the effect arms one
setTimeout(pending, timer, entry) ==
  IF timer = NoTimer
  THEN pending
  ELSE pending \cup {[due |-> timer.due, idx |-> timer.idx, entry |-> entry]}

\* return () => clearTimeout(timer): the cleanup of the entry-th run
clearTimeout(pending, entry) == {t \in pending : t.entry # entry}

fireTimeout_interval(pending, t) == pending

\* a timeout fires once: the browser drops it when it calls the callback
fireTimeout(pending, t) == pending \ {t}

\* body of the effect for the committed index idx; timersLeft are the
\* timeouts still pending when the body starts
SceneEffect(idx, timersLeft) ==
  IF sceneExecutedRef \/ idx + 1 > Len(scenes)
  THEN /\ timers' = timersLeft
       /\ UNCHANGED << sceneExecutedRef, sceneStartTimeRef, routines >>
  ELSE /\ sceneExecutedRef' = TRUE
       /\ sceneStartTimeRef' = now
       /\ routines' = Append(routines, NewRoutine(idx))
       /\ timers' = setTimeout(timersLeft,
                               armSceneTimer(scenes[idx + 1].duration, idx),
                               Len(routines) + 1)

\* first render: the ref-sync effect, then the scene effect
Mount ==
  /\ ~mounted
  /\ mounted' = TRUE
  /\ shapesRef' = shapes
  /\ SceneEffect(currentSceneIndex, timers)
  /\ UNCHANGED << factory, value, canvas, tween, scenes, loop, now, currentSceneIndex, pendingIndex, shapes,
                  queue, shapeIdCounterRef, shapeMetadataRef, removingShapesRef,
                  removals, lastFrame, registryGen, nextUid, halted >>

\* a re-render: the queued updaters are applied in order, the ref-sync effect
\* runs, and the scene effect runs again when its dependencies changed (its
\* cleanup, clearTimeout(timer), first)
Commit ==
  /\ mounted /\ ~Running /\ CommitPending
  /\ LET idx == IF pendingIndex # NoIndex THEN pendingIndex ELSE currentSceneIndex
     IN  /\ currentSceneIndex' = idx
         /\ shapes' = applyQueue(shapes, queue)
         /\ shapesRef' = shapes'
         /\ IF effectDepsChanged(currentSceneIndex, idx)
            THEN SceneEffect(idx, clearTimeout(timers, Len(routines)))
            ELSE UNCHANGED << sceneExecutedRef, sceneStartTimeRef, routines, timers >>
  /\ pendingIndex' = NoIndex
  /\ queue' = << >>
  /\ UNCHANGED << factory, value, canvas, tween, scenes, loop, now, mounted, shapeIdCounterRef, shapeMetadataRef,
                  removingShapesRef, removals, lastFrame, registryGen, nextUid,
                  halted >>

\* ------------------------------------------------------------------------
\* nextScene, called by the scene timer
\* ------------------------------------------------------------------------
nextSceneIndex_offByOne(i) ==
  IF i + 1 <= Len(scenes) THEN i + 1
  ELSE IF loop THEN 0
  ELSE NoIndex

\* the index handed to setCurrentSceneIndex, NoIndex when neither branch is taken
nextSceneIndex(i) ==
  IF i + 1 < Len(scenes) THEN i + 1
  ELSE IF loop THEN 0
  ELSE NoIndex

nextSceneShapes_kept(q) == q

\* setShapes([])
nextSceneShapes(q) == Append(q, UClear)

\* a pending timeout of the scene effect fires: the nextScene of its closure
NextScene ==
  /\ mounted /\ ~Running
  /\ \E t \in timers :
       /\ t.due <= now
       /\ timers' = fireTimeout(timers, t)
       /\ LET target == nextSceneIndex(t.idx)
          IN  /\ pendingIndex' = IF target # NoIndex THEN target ELSE pendingIndex
              /\ halted' = (halted \/ target = NoIndex)
  /\ sceneStartTimeRef' = now
  /\ sceneExecutedRef' = FALSE
  /\ shapeIdCounterRef' = InitialId
  /\ shapeMetadataRef' = EmptyMap
  /\ removingShapesRef' = EmptyMap
  /\ queue' = nextSceneShapes(queue)
  /\ registryGen' = registryGen + 1
  /\ UNCHANGED << factory, value, canvas, tween, scenes, loop, now, mounted, currentSceneIndex, shapes, shapesRef,
                  routines, removals, lastFrame, nextUid >>

\* ------------------------------------------------------------------------
\* The capability object: what a routine does between two suspensions
\* ------------------------------------------------------------------------
CurrentInstr(r) == Script(r)[routines[r].pc]

CanStep(r, op) ==
  /\ mounted
  /\ r \in 1..Len(routines)
  /\ routines[r].status = "running"
  /\ routines[r].pc <= Len(Script(r))
  /\ CurrentInstr(r).op = op

\* buildShapeWithMetadata: the Shape handed to addShape
buildShape(id, uid, x, y, animateIn, animateOut, t) ==
  [id |-> id, uid |-> uid, x |-> x, y |-> y,
   state |-> IF animateIn.defined THEN "entering" ELSE "visible",
   addedAt |-> t, removedAt |-> NoTime,
   animateIn |-> animateIn, animateOut |-> animateOut]

addShape_alwaysVisible(shape, t) ==
  [shape EXCEPT !.state = "visible", !.addedAt = t]

\* addShape: { ...shape, id, state: shape.animateIn ? "entering" : "visible",
\*             addedAt: now }
addShape(shape, t) ==
  [shape EXCEPT !.state = IF shape.animateIn.defined THEN "entering" ELSE "visible",
                !.addedAt = t]

addShapeCounter_behind(counter, numericId) == counter - 1

\* addShape: a provided id raises the counter when it is higher
addShapeCounter(counter, numericId) ==
  IF numericId > counter THEN numericId ELSE counter

\* shapeMetadataRef.current.set(id, { animateOut, x: shapeData.x || 0,
\*                                      y: shapeData.y || 0 })
metadataOf(ins) == [animateOut |-> ins.animOut, x |-> ins.x, y |-> ins.y]

\* a shape factory: buildShapeWithMetadata, then addShape, then the handle
RoutineAdd(r) ==
  /\ CanStep(r, "add")
  /\ LET ins == CurrentInstr(r)
         id == shapeIdCounterRef + 1
         shape == addShape(buildShape(id, nextUid, ins.x, ins.y,
                                      ins.animIn, ins.animOut, now), now)
     IN  /\ shapeIdCounterRef' = addShapeCounter(id, id)
         /\ shapeMetadataRef' = MapSet(shapeMetadataRef, id, metadataOf(ins))
         /\ queue' = Append(queue, UAdd(shape))
         /\ routines' = [routines EXCEPT
                           ![r].pc = @ + 1,
                           ![r].handles[ins.h] = id,
                           ![r].handleUids[ins.h] = nextUid,
                           ![r].made = Append(@, [uid |-> nextUid,
                                                  id |-> id,
                                                  gen |-> registryGen,
                                                  pc |-> routines[r].pc,
                                                  stretch |-> routines[r].stretch,
                                                  anchor |-> At(ins.x, ins.y)])]
  /\ nextUid' = nextUid + 1
  /\ UNCHANGED << factory, value, canvas, tween, scenes, loop, now, mounted, currentSceneIndex, pendingIndex, shapes,
                  shapesRef, sceneStartTimeRef, sceneExecutedRef, removingShapesRef,
                  timers, removals, lastFrame, registryGen, halted >>

\* clearShapes: setShapes([])
RoutineClear(r) ==
  /\ CanStep(r, "clear")
  /\ queue' = Append(queue, UClear)
  /\ routines' = [routines EXCEPT ![r].pc = @ + 1]
  /\ removals' = [c \in 1..Len(removals) |-> [removals[c] EXCEPT !.cleared = TRUE]]
  /\ UNCHANGED << factory, value, canvas, tween, scenes, loop, now, mounted, currentSceneIndex, pendingIndex, shapes,
                  shapesRef, sceneStartTimeRef, sceneExecutedRef, shapeIdCounterRef,
                  shapeMetadataRef, removingShapesRef, timers,
                  lastFrame, registryGen, nextUid, halted >>

wakeTime_early(t, d) == IF d > 0 THEN t + d - 1 ELSE t

\* setTimeout(resolve, duration.ms): the time the timer of wait() is due
wakeTime(t, d) == t + d

\* await api.wait(d): setTimeout(resolve, d.ms)
RoutineWait(r) ==
  /\ CanStep(r, "wait")
  /\ routines' = [routines EXCEPT ![r].pc = @ + 1,
                                  ![r].status = "waiting",
                                  ![r].wake = wakeTime(now, CurrentInstr(r).d),
                                  ![r].sleptAt = now]
  /\ UNCHANGED << factory, value, canvas, tween, scenes, loop, now, mounted, currentSceneIndex, pendingIndex, shapes,
                  queue, shapesRef, sceneStartTimeRef, sceneExecutedRef,
                  shapeIdCounterRef, shapeMetadataRef, removingShapesRef, timers,
                  removals, lastFrame, registryGen, nextUid, halted >>

\* the timer of wait() fires and the routine continues
WaitDone(r) ==
  /\ mounted /\ ~Running
  /\ r \in 1..Len(routines)
  /\ routines[r].status = "waiting"
  /\ routines[r].wake <= now
  /\ routines' = [routines EXCEPT ![r].status = "running", ![r].wake = NoTime,
                                  ![r].stretch = @ + 1]
  /\ UNCHANGED << factory, value, canvas, tween, scenes, loop, now, mounted, currentSceneIndex, pendingIndex, shapes,
                  queue, shapesRef, sceneStartTimeRef, sceneExecutedRef,
                  shapeIdCounterRef, shapeMetadataRef, removingShapesRef, timers,
                  removals, lastFrame, registryGen, nextUid, halted >>

RoutineReturn_advances(r) ==
  /\ mounted
  /\ r \in 1..Len(routines)
  /\ routines[r].status = "running"
  /\ routines[r].pc > Len(Script(r))
  /\ routines' = [routines EXCEPT ![r].status = "done"]
  /\ pendingIndex' = IF nextSceneIndex(routines[r].scene) # NoIndex
                     THEN nextSceneIndex(routines[r].scene) ELSE pendingIndex
  /\ queue' = nextSceneShapes(queue)
  /\ UNCHANGED << factory, value, canvas, tween, scenes, loop, now, mounted, currentSceneIndex, shapes,
                  shapesRef, sceneStartTimeRef, sceneExecutedRef,
                  shapeIdCounterRef, shapeMetadataRef, removingShapesRef, timers,
                  removals, lastFrame, registryGen, nextUid, halted >>

\* the routine's async function returns
RoutineReturn(r) ==
  /\ mounted
  /\ r \in 1..Len(routines)
  /\ routines[r].status = "running"
  /\ routines[r].pc > Len(Script(r))
  /\ routines' = [routines EXCEPT ![r].status = "done"]
  /\ UNCHANGED << factory, value, canvas, tween, scenes, loop, now, mounted, currentSceneIndex, pendingIndex, shapes,
                  queue, shapesRef, sceneStartTimeRef, sceneExecutedRef,
                  shapeIdCounterRef, shapeMetadataRef, removingShapesRef, timers,
                  removals, lastFrame, registryGen, nextUid, halted >>

faultHandler_teardown(pending) == {}

\* scene.draw(api).catch(error => console.error(...)): the handler logs and
\* touches nothing of the scheduler; pending are the scene effect's timeouts
faultHandler(pending) == pending

\* the routine's async function throws: its promise rejects and the catch
\* handler of the scene effect runs
RoutineThrow(r) ==
  /\ CanStep(r, "throw")
  /\ routines' = [routines EXCEPT ![r].status = "faulted"]
  /\ timers' = faultHandler(timers)
  /\ UNCHANGED << factory, value, canvas, tween, scenes, loop, now, mounted, currentSceneIndex, pendingIndex, shapes,
                  queue, shapesRef, sceneStartTimeRef, sceneExecutedRef,
                  shapeIdCounterRef, shapeMetadataRef, removingShapesRef,
                  removals, lastFrame, registryGen, nextUid, halted >>

accessor_returns(name) == [threw |-> FALSE, message |-> NoError]

\* getRoughCanvas / getCanvas of the capability object: both throw, whatever
\* the state of the hook
accessor(name) ==
  [threw |-> TRUE,
   message |-> IF name = "getRoughCanvas"
               THEN "getRoughCanvas can only be called during draw"
               ELSE "getCanvas can only be called during draw"]

\* the routine calls api.getCanvas() or api.getRoughCanvas(): the error
\* rejects the routine's promise and the catch handler of the scene effect runs
RoutineAccessor(r) ==
  /\ \E name \in Accessors : CanStep(r, name)
  /\ LET outcome == accessor(CurrentInstr(r).op)
     IN  IF outcome.threw
         THEN /\ routines' = [routines EXCEPT ![r].status = "faulted",
                                              ![r].error = outcome.message]
              /\ timers' = faultHandler(timers)
         ELSE /\ routines' = [routines EXCEPT ![r].pc = @ + 1]
              /\ UNCHANGED timers
  /\ UNCHANGED << factory, value, canvas, tween, scenes, loop, now, mounted, currentSceneIndex, pendingIndex, shapes,
                  queue, shapesRef, sceneStartTimeRef, sceneExecutedRef,
                  shapeIdCounterRef, shapeMetadataRef, removingShapesRef,
                  removals, lastFrame, registryGen, nextUid, halted >>

\* ------------------------------------------------------------------------
\* handle.getPosition()
\* ------------------------------------------------------------------------
Find(ss, shapeId) == { i \in 1..Len(ss) : ss[i].id = shapeId }

Min(S) == CHOOSE m \in S : \A k \in S : m <= k

getPosition_snapshot(meta, ref, shapeId) ==
  IF Find(ref, shapeId) # {}
  THEN At(ref[Min(Find(ref, shapeId))].x, ref[Min(Find(ref, shapeId))].y)
  ELSE Zero

\* the metadata of the id when there is one, else the first shape of
\* shapesRef.current with the id, else Position.zero()
getPosition(meta, ref, shapeId) ==
  IF MapHas(meta, shapeId)
  THEN At(meta[shapeId].x, meta[shapeId].y)
  ELSE IF Find(ref, shapeId) # {}
       THEN At(ref[Min(Find(ref, shapeId))].x, ref[Min(Find(ref, shapeId))].y)
       ELSE Zero

\* the routine calls handle.getPosition()
RoutineGetPosition(r) ==
  /\ CanStep(r, "getPosition")
  /\ routines' = [routines EXCEPT
                    ![r].pc = @ + 1,
                    ![r].position = getPosition(shapeMetadataRef, shapesRef,
                                                routines[r].handles[CurrentInstr(r).h])]
  /\ UNCHANGED << factory, value, canvas, tween, scenes, loop, now, mounted, currentSceneIndex, pendingIndex, shapes,
                  queue, shapesRef, sceneStartTimeRef, sceneExecutedRef,
                  shapeIdCounterRef, shapeMetadataRef, removingShapesRef, timers,
                  removals, lastFrame, registryGen, nextUid, halted >>

\* ------------------------------------------------------------------------
\* handle.remove()
\* ------------------------------------------------------------------------
\* const exitAnim = animateOpts || metadata?.animateOut
effectiveExit(animateOpts, meta, shapeId) ==
  IF animateOpts.defined THEN animateOpts
  ELSE IF MapHas(meta, shapeId) THEN meta[shapeId].animateOut
  ELSE Undefined

removeDelay_firstEffect(exitAnim) ==
  IF exitAnim.defined /\ exitAnim.effects # << >>
  THEN Head(exitAnim.effects).duration
  ELSE 0

\* the delay of the first timer of remove(); none is armed unless it is > 0
removeDelay(exitAnim) == maxDuration(exitAnim)

purgeShapes_skipped(q, shapeId) == q

\* setShapes(prev => prev.filter(s => s.id !== shapeId))
purgeShapes(q, shapeId) == Append(q, UFilter(shapeId))

\* the second timer of remove(): setTimeout(resolve, 50)
settleDue(t) == t + SettleDelay

\* history fields: calledGen is the number of scene switches before the call,
\* present tells whether the handle's shape was in the registry at the call,
\* cleared whether clearShapes() was called since, override is the argument
\* of the call
Removal(shapeId, uid, r, exitAnim, phase, due) ==
  [id |-> shapeId, uid |-> uid, owner |-> r, gen |-> routines[r].gen,
   calledAt |-> now, exitAnim |-> exitAnim, phase |-> phase, due |-> due,
   purgedAt |-> IF phase = "settle" THEN now ELSE NoTime, resolvedAt |-> NoTime,
   calledGen |-> registryGen,
   present |-> \E i \in 1..Len(applyQueue(shapes, queue)) :
                 applyQueue(shapes, queue)[i].uid = uid,
   cleared |-> FALSE,
   override |-> CurrentInstr(r).animOut]

\* handle.remove(animation), awaited or not: up to its first suspension
RoutineRemove(r) ==
  /\ CanStep(r, "remove") \/ CanStep(r, "removeDetached")
  /\ LET ins == CurrentInstr(r)
         shapeId == routines[r].handles[ins.h]
         uid == routines[r].handleUids[ins.h]
         exitAnim == effectiveExit(ins.animOut, shapeMetadataRef, shapeId)
         removing1 == MapSet(removingShapesRef, shapeId,
                             [removedAt |-> now, animateOut |-> exitAnim])
         q1 == Append(queue, UExit(shapeId, now, ins.animOut))
         delay == removeDelay(exitAnim)
     IN  IF delay > 0
         THEN /\ removingShapesRef' = removing1
              /\ queue' = q1
              /\ removals' = Append(removals,
                                Removal(shapeId, uid, r, exitAnim, "anim", now + delay))
              /\ UNCHANGED shapeMetadataRef
         ELSE /\ queue' = purgeShapes(q1, shapeId)
              /\ shapeMetadataRef' = MapDelete(shapeMetadataRef, shapeId)
              /\ removingShapesRef' = MapDelete(removing1, shapeId)
              /\ removals' = Append(removals,
                                Removal(shapeId, uid, r, exitAnim, "settle", settleDue(now)))
  /\ routines' = IF CurrentInstr(r).op = "remove"
                 THEN [routines EXCEPT ![r].pc = @ + 1,
                                       ![r].status = "awaitRemove",
                                       ![r].awaiting = Len(removals) + 1]
                 ELSE [routines EXCEPT ![r].pc = @ + 1]
  /\ UNCHANGED << factory, value, canvas, tween, scenes, loop, now, mounted, currentSceneIndex, pendingIndex, shapes,
                  shapesRef, sceneStartTimeRef, sceneExecutedRef, shapeIdCounterRef,
                  timers, lastFrame, registryGen, nextUid, halted >>

\* the exit timer fires: purge, drop the bookkeeping, arm the settle timer
RemoveAnimDone(c) ==
  /\ mounted /\ ~Running
  /\ c \in 1..Len(removals)
  /\ removals[c].phase = "anim"
  /\ removalReady(c)
  /\ queue' = purgeShapes(queue, removals[c].id)
  /\ shapeMetadataRef' = MapDelete(shapeMetadataRef, removals[c].id)
  /\ removingShapesRef' = MapDelete(removingShapesRef, removals[c].id)
  /\ removals' = [removals EXCEPT ![c].phase = "settle",
                                  ![c].due = settleDue(now),
                                  ![c].purgedAt = now]
  /\ UNCHANGED << factory, value, canvas, tween, scenes, loop, now, mounted, currentSceneIndex, pendingIndex, shapes,
                  shapesRef, sceneStartTimeRef, sceneExecutedRef, shapeIdCounterRef,
                  timers, routines, lastFrame, registryGen, nextUid, halted >>

\* the settle timer fires: the promise of remove() resolves and the awaiting
\* routine continues
RemoveSettled(c) ==
  /\ mounted /\ ~Running
  /\ c \in 1..Len(removals)
  /\ removals[c].phase = "settle"
  /\ removalReady(c)
  /\ removals' = [removals EXCEPT ![c].phase = "resolved",
                                  ![c].due = NoTime,
                                  ![c].resolvedAt = now]
  /\ routines' = [r \in 1..Len(routines) |->
                    IF routines[r].status = "awaitRemove" /\ routines[r].awaiting = c
                    THEN [routines[r] EXCEPT !.status = "running", !.awaiting = 0,
                                             !.stretch = @ + 1]
                    ELSE routines[r]]
  /\ UNCHANGED << factory, value, canvas, tween, scenes, loop, now, mounted, currentSceneIndex, pendingIndex, shapes,
                  queue, shapesRef, sceneStartTimeRef, sceneExecutedRef,
                  shapeIdCounterRef, shapeMetadataRef, removingShapesRef, timers,
                  lastFrame, registryGen, nextUid, halted >>

\* ------------------------------------------------------------------------
\* Numbers of the tween calculator: exact fractions n / d in lowest terms with
\* d > 0, and NaN (0 / 0 in the code); rounding of doubles is left aside
\* ------------------------------------------------------------------------
NaN == [n |-> 0, d |-> 0]
isNaN(a) == a.d = 0

Abs(a) == IF a < 0 THEN -a ELSE a

RECURSIVE GCD(_, _)
GCD(a, b) == IF b = 0 THEN a ELSE GCD(b, a % b)

\* the one element of a singleton set; the operands of the operators below
\* are bound through one, so that each is evaluated once
The(S) == CHOOSE v \in S : TRUE

Num(n, d) ==
  The({ [n |-> p[1] \div p[3], d |-> p[2] \div p[3]] : p \in {<< n, d, GCD(Abs(n), d) >>} })
Whole(k) == [n |-> k, d |-> 1]

Times(a, b) ==
  The({ IF isNaN(p[1]) \/ isNaN(p[2]) THEN NaN
        ELSE Num(p[1].n * p[2].n, p[1].d * p[2].d) : p \in {<< a, b >>} })
Plus(a, b) ==
  The({ IF isNaN(p[1]) \/ isNaN(p[2]) THEN NaN
        ELSE Num(p[1].n * p[2].d + p[2].n * p[1].d, p[1].d * p[2].d) : p \in {<< a, b >>} })
Minus(a, b) == Plus(a, Times(Whole(-1), b))

\* ------------------------------------------------------------------------
\* The tween calculator
\* ------------------------------------------------------------------------
progress_unclamped(elapsed, duration) ==
  IF duration = 0 THEN (IF elapsed = 0 THEN NaN ELSE Whole(1))
  ELSE Num(elapsed, duration)

\* Math.min(elapsed / effect.duration, 1) for elapsed >= 0 and duration >= 0:
\* 0 / 0 is NaN and Math.min(NaN, 1) is NaN; x / 0 is Infinity for x > 0
progress(elapsed, duration) ==
  IF duration = 0 THEN (IF elapsed = 0 THEN NaN ELSE Whole(1))
  ELSE IF elapsed >= duration THEN Whole(1)
  ELSE Num(elapsed, duration)

\* let opacity = 1; let offsetX = 0; let offsetY = 0
Untouched == [opacity |-> Whole(1), offsetX |-> Whole(0), offsetY |-> Whole(0)]

\* offsetX / offsetY after a slide effect that has travelled the share f of
\* its displacement: the Position pattern first, else direction + distance
slide(acc, effect, f) ==
  IF effect.hasOffset
  THEN [acc EXCEPT !.offsetX = Plus(@, Times(Whole(effect.x), f)),
                   !.offsetY = Plus(@, Times(Whole(effect.y), f))]
  ELSE IF effect.direction # "none" /\ effect.distance # 0
  THEN CASE effect.direction = "left" ->
              [acc EXCEPT !.offsetX = Minus(@, Times(Whole(effect.distance), f))]
         [] effect.direction = "right" ->
              [acc EXCEPT !.offsetX = Plus(@, Times(Whole(effect.distance), f))]
         [] effect.direction = "top" ->
              [acc EXCEPT !.offsetY = Minus(@, Times(Whole(effect.distance), f))]
         [] effect.direction = "bottom" ->
              [acc EXCEPT !.offsetY = Plus(@, Times(Whole(effect.distance), f))]
  ELSE acc

entranceEffect_lastFadeWins(acc, effect, elapsed) ==
  IF effect.type = "fade"
  THEN [acc EXCEPT !.opacity = progress(elapsed, effect.duration)]
  ELSE slide(acc, effect, Minus(Whole(1), progress(elapsed, effect.duration)))

\* the body of forEach in calculateEntranceAnimation
entranceEffect(acc, effect, elapsed) ==
  IF effect.type = "fade"
  THEN [acc EXCEPT !.opacity = Times(@, progress(elapsed, effect.duration))]
  ELSE slide(acc, effect, Minus(Whole(1), progress(elapsed, effect.duration)))

RECURSIVE entranceEffects(_, _, _)
entranceEffects(acc, effs, elapsed) ==
  IF effs = << >> THEN acc
  ELSE entranceEffects(entranceEffect(acc, Head(effs), elapsed), Tail(effs), elapsed)

calculateEntranceAnimation(elapsed, animateIn) ==
  IF ~animateIn.defined THEN Untouched
  ELSE entranceEffects(Untouched, animateIn.effects, elapsed)

\* the body of forEach in calculateExitAnimation
exitEffect(acc, effect, elapsed) ==
  IF effect.type = "fade"
  THEN [acc EXCEPT !.opacity = Times(@, Minus(Whole(1), progress(elapsed, effect.duration)))]
  ELSE slide(acc, effect, progress(elapsed, effect.duration))

RECURSIVE exitEffects(_, _, _)
exitEffects(acc, effs, elapsed) ==
  IF effs = << >> THEN acc
  ELSE exitEffects(exitEffect(acc, Head(effs), elapsed), Tail(effs), elapsed)

Transform(t, skip) ==
  [opacity |-> t.opacity, offsetX |-> t.offsetX, offsetY |-> t.offsetY,
   shouldSkip |-> skip]

\* return { opacity: 0, offsetX: 0, offsetY: 0, shouldSkip: true }
Terminal ==
  [opacity |-> Whole(0), offsetX |-> Whole(0), offsetY |-> Whole(0), shouldSkip |-> TRUE]

calculateExitAnimation_unguarded(elapsed, animateOut) ==
  IF elapsed >= MaxOfDurations(animateOut.effects) THEN Terminal
  ELSE Transform(exitEffects(Untouched, animateOut.effects, elapsed), FALSE)

calculateExitAnimation_strict(elapsed, animateOut) ==
  IF ~animateOut.defined THEN Transform(Untouched, FALSE)
  ELSE IF elapsed > MaxOfDurations(animateOut.effects) THEN Terminal
  ELSE Transform(exitEffects(Untouched, animateOut.effects, elapsed), FALSE)

calculateExitAnimation(elapsed, animateOut) ==
  IF ~animateOut.defined THEN Transform(Untouched, FALSE)
  ELSE IF elapsed >= MaxOfDurations(animateOut.effects) THEN Terminal
  ELSE Transform(exitEffects(Untouched, animateOut.effects, elapsed), FALSE)

calculateShapeTransform(shape, currentTime, removing) ==
  IF MapHas(removing, shape.id)
  THEN calculateExitAnimation(currentTime - removing[shape.id].removedAt,
                              removing[shape.id].animateOut)
  ELSE IF shape.state = "entering" /\ shape.animateIn.defined
  THEN Transform(calculateEntranceAnimation(currentTime - shape.addedAt, shape.animateIn),
                 FALSE)
  ELSE IF /\ shape.state = "exiting"
          /\ shape.removedAt # NoTime /\ shape.removedAt # 0
          /\ shape.animateOut.defined
  THEN calculateExitAnimation(currentTime - shape.removedAt, shape.animateOut)
  ELSE Transform(Untouched, FALSE)

isEntranceAnimationComplete_undefinedOnly(elapsed, animateIn) == ~animateIn.defined

isEntranceAnimationComplete(elapsed, animateIn) ==
  IF ~animateIn.defined THEN TRUE
  ELSE elapsed >= MaxOfDurations(animateIn.effects)

\* ------------------------------------------------------------------------
\* draw(), called by the render loop
\* ------------------------------------------------------------------------
Painted(shape) ==
  ~calculateShapeTransform(shape, now, removingShapesRef).shouldSkip

\* the entering -> visible updater is queued for a painted shape whose
\* entrance animation is over
BecomesVisible(shape) ==
  /\ Painted(shape)
  /\ shape.state = "entering" /\ shape.animateIn.defined
  /\ isEntranceAnimationComplete(now - shape.addedAt, shape.animateIn)

RECURSIVE drawUpdates(_)
drawUpdates(ss) ==
  IF ss = << >> THEN << >>
  ELSE (IF BecomesVisible(Head(ss)) THEN << UVisible(Head(ss).id) >> ELSE << >>)
       \o drawUpdates(Tail(ss))

RECURSIVE drawFrame(_)
drawFrame(ss) ==
  IF ss = << >> THEN << >>
  ELSE (IF Painted(Head(ss)) THEN << Head(ss).uid >> ELSE << >>)
       \o drawFrame(Tail(ss))

Draw ==
  /\ mounted /\ ~Running
  /\ Len(queue) + Len(drawUpdates(shapesRef)) <= MaxQueue
  /\ queue' = queue \o drawUpdates(shapesRef)
  /\ lastFrame' = drawFrame(shapesRef)
  /\ UNCHANGED << factory, value, canvas, tween, scenes, loop, now, mounted, currentSceneIndex, pendingIndex, shapes,
                  shapesRef, sceneStartTimeRef, sceneExecutedRef, shapeIdCounterRef,
                  shapeMetadataRef, removingShapesRef, timers, routines,
                  removals, registryGen, nextUid, halted >>

\* ------------------------------------------------------------------------
\* The clock: it moves only when the event loop is idle, so a timer fires at
\* the time it was armed for and a scheduled re-render is not overtaken
\* ------------------------------------------------------------------------
Tick ==
  /\ mounted /\ ~Running /\ ~TimerDue /\ ~CommitPending
  /\ now < MaxTime
  /\ now' = now + 1
  /\ UNCHANGED << factory, value, canvas, tween, scenes, loop, mounted, currentSceneIndex, pendingIndex, shapes,
                  queue, shapesRef, sceneStartTimeRef, sceneExecutedRef,
                  shapeIdCounterRef, shapeMetadataRef, removingShapesRef, timers,
                  routines, removals, lastFrame, registryGen, nextUid, halted >>

RoutineIds == 1..(MaxTime + 1)
RemovalIds == 1..(2 * (MaxTime + 1))

Next ==
  \/ Mount
  \/ Commit
  \/ NextScene
  \/ \E r \in RoutineIds : RoutineAdd(r)
  \/ \E r \in RoutineIds : RoutineClear(r)
  \/ \E r \in RoutineIds : RoutineWait(r)
  \/ \E r \in RoutineIds : WaitDone(r)
  \/ \E r \in RoutineIds : RoutineReturn(r)
  \/ \E r \in RoutineIds : RoutineThrow(r)
  \/ \E r \in RoutineIds : RoutineAccessor(r)
  \/ \E r \in RoutineIds : RoutineGetPosition(r)
  \/ \E r \in RoutineIds : RoutineRemove(r)
  \/ \E c \in RemovalIds : RemoveAnimDone(c)
  \/ \E c \in RemovalIds : RemoveSettled(c)
  \/ Draw
  \/ Tick

Spec == Init /\ [][Next]_vars

\* the event loop runs every task that is ready, and the clock goes on
FairSpec == Spec /\ WF_vars(Next)

\* ------------------------------------------------------------------------
\* The tween calculator on its own: what draw() computes for one shape, for
\* arguments drawn from the sets below
\* ------------------------------------------------------------------------
TweenSpecs ==
  { Undefined,
    Anim(<< >>),
    Anim(<< Fade(2) >>),
    Anim(<< Fade(0) >>),
    Anim(<< Fade(2), Fade(4) >>),
    Anim(<< Fade(600), SlideFrom("left", 150, 700) >>),
    Anim(<< SlideBy(3, -2, 2), SlideFrom("bottom", 4, 4) >>),
    Anim(<< SlideFrom("right", 3, 2), SlideFrom("top", 0, 1) >>),
    Anim(<< Fade(0), SlideBy(2, 2, 2) >>) }

\* the exit specs remove() may have recorded in removingShapesRef
RemovingSpecs ==
  { Undefined, Anim(<< >>), Anim(<< Fade(2) >>),
    Anim(<< Fade(3), SlideFrom("right", 3, 2) >>) }

TweenTimes == (0..MaxElapsed) \cup {350, 700}

TweenId == 1

RemovingInfos ==
  {EmptyMap} \cup
  { MapSet(EmptyMap, TweenId, [removedAt |-> Epoch, animateOut |-> a]) : a \in RemovingSpecs }

TweenInputs ==
  { [shape |-> [id |-> TweenId, uid |-> TweenId, x |-> 0, y |-> 0, state |-> st, addedAt |-> Epoch,
                removedAt |-> ra, animateIn |-> ai, animateOut |-> ao],
     currentTime |-> Epoch + e,
     removing |-> rm,
     done |-> FALSE] :
       st \in {"entering", "visible", "exiting"}, ra \in {NoTime, Epoch},
       ai \in TweenSpecs, ao \in TweenSpecs, e \in TweenTimes, rm \in RemovingInfos }

TweenInit ==
  /\ scenes = << >>
  /\ loop = FALSE
  /\ tween \in TweenInputs
  /\ value = NoValue
  /\ factory = NoFactory
  /\ canvas = NoCanvas
  /\ HookInit

\* draw(), for one shape: the transform, and whether the entrance is over
Calculate ==
  /\ ~mounted /\ tween # NoTween /\ ~tween.done
  /\ tween' =
       [shape |-> tween.shape, currentTime |-> tween.currentTime,
        removing |-> tween.removing, done |-> TRUE,
        result |-> calculateShapeTransform(tween.shape, tween.currentTime, tween.removing),
        complete |-> isEntranceAnimationComplete(tween.currentTime - tween.shape.addedAt,
                                                 tween.shape.animateIn)]
  /\ UNCHANGED << factory, value, canvas, hook >>

TweenNext == Calculate

TweenSpec == TweenInit /\ [][TweenNext]_vars

\* ------------------------------------------------------------------------
\* Properties
\* ------------------------------------------------------------------------
Registry == applyQueue(shapes, queue)

AllDurationsPositive == \A k \in 1..Len(scenes) : scenes[k].duration > 0

NextSceneCalled == registryGen' = registryGen + 1

Committed == mounted /\ ~CommitPending /\ ~Running

\* C1: when the auto-advance fires while scene i of N is current, the index
\* becomes i+1 if i+1 < N, 0 if i+1 = N and the timeline loops, and otherwise
\* stays i, and then no scene routine is ever invoked again.
C1_AdvanceRule ==
  [][ /\ NextSceneCalled =>
         /\ sceneTimer.idx = currentSceneIndex
         /\ pendingIndex' =
              (IF currentSceneIndex + 1 < Len(scenes) THEN currentSceneIndex + 1
               ELSE IF loop THEN 0 ELSE NoIndex)
         /\ halted' = (halted \/ (currentSceneIndex + 1 >= Len(scenes) /\ ~loop))
      /\ (pendingIndex # NoIndex /\ pendingIndex' = NoIndex) =>
            currentSceneIndex' = pendingIndex
      /\ (pendingIndex = NoIndex /\ ~NextSceneCalled) =>
            currentSceneIndex' = currentSceneIndex
      /\ halted => /\ currentSceneIndex' = currentSceneIndex
                   /\ Len(routines') = Len(routines) ]_vars

C1_Witness ==
  /\ halted /\ Committed
  /\ Len(scenes) = 2 /\ currentSceneIndex = 1
  /\ Len(routines) = 2
  /\ now = MaxTime

\* C2: in a looping timeline of N >= 2 scenes with positive durations the
\* routines are started in the order 0, 1, ..., N-1, 0, ..., each one the
\* duration of its predecessor after the predecessor started, and the starts
\* go on (three of them fit into the explored time).
C2_CyclicOrder ==
  (loop /\ Len(scenes) >= 2 /\ AllDurationsPositive) =>
     /\ [](\A r \in 1..Len(routines) :
             /\ routines[r].scene = (r - 1) % Len(scenes)
             /\ r > 1 => routines[r].startedAt =
                           routines[r - 1].startedAt
                             + scenes[routines[r - 1].scene + 1].duration)
     /\ <>(Len(routines) >= 3)

C2_Witness ==
  /\ loop /\ Len(scenes) = 2
  /\ Len(routines) = 3
  /\ routines[3].scene = 0
  /\ routines[3].startedAt = Epoch + scenes[1].duration + scenes[2].duration

\* C3: in a looping timeline with one scene of positive duration D, the
\* routine is invoked again each time D elapses: after k advances it has been
\* started k + 1 times.
C3_SingleSceneRestarts ==
  (loop /\ Len(scenes) = 1 /\ AllDurationsPositive /\ Committed) =>
     Len(routines) = registryGen + 1

\* C4: a scene switch leaves the registry empty and the id counter at its
\* initial value, wherever the routine stands.
C4_SwitchClears ==
  [][ NextSceneCalled =>
        /\ applyQueue(shapes', queue') = << >>
        /\ shapeIdCounterRef' = InitialId ]_vars

C4_Witness ==
  /\ registryGen >= 1
  /\ Registry = << >>
  /\ shapeIdCounterRef = InitialId
  /\ shapes # << >>
  /\ \E c \in 1..Len(removals) : removals[c].phase = "anim"
  /\ \E i \in 1..Len(shapes) : shapes[i].state = "entering"

\* C5: only the routine of the currently active scene (the one started last)
\* mutates the shape collection and the id counter; a routine of an earlier
\* scene that resumes after the switch does not.
C5_OnlyActiveSceneMutates ==
  [][ \A r \in 1..Len(routines) :
        ( /\ routines'[r].pc # routines[r].pc
          /\ (queue' # queue \/ shapeIdCounterRef' # shapeIdCounterRef) )
        => r = Len(routines) ]_vars

\* C6: the completion of remove() never resolves before the maximum effect
\* duration of the effective exit spec has elapsed since the call.
ExitDuration(exitAnim) ==
  IF exitAnim.defined THEN MaxOfDurations(exitAnim.effects) ELSE 0

C6_NotBeforeExitDuration ==
  \A c \in 1..Len(removals) :
    removals[c].phase = "resolved" =>
      removals[c].resolvedAt - removals[c].calledAt >= ExitDuration(removals[c].exitAnim)

C6_Witness ==
  \E c \in 1..Len(removals) :
    /\ removals[c].phase = "resolved"
    /\ ExitDuration(removals[c].exitAnim) >= 2

\* C7: every call of remove() eventually resolves, also when the scene is
\* switched while the removal is in flight (calls whose exit duration and
\* settle delay end within the explored time).
InTime(c) ==
  IF c <= Len(removals)
  THEN removals[c].calledAt + Max2(ExitDuration(removals[c].exitAnim), 0)
         + SettleDelay <= MaxTime
  ELSE FALSE

Resolved(c) ==
  IF c <= Len(removals) THEN removals[c].phase = "resolved" ELSE FALSE

C7_RemoveResolves == \A c \in RemovalIds : InTime(c) ~> Resolved(c)

C7_Witness ==
  \E c \in 1..Len(removals) :
    /\ removals[c].phase = "resolved"
    /\ ExitDuration(removals[c].exitAnim) >= 2
    /\ removals[c].gen < registryGen
    /\ removals[c].purgedAt > routines[removals[c].owner].startedAt
                               + scenes[routines[removals[c].owner].scene + 1].duration - 1

\* C8: when the completion of remove() resolves, the shape is no longer in
\* the live set, neither in the state, nor in the ref the render pass reads,
\* nor in an update still to be applied.
HasUid(ss, uid) == \E i \in 1..Len(ss) : ss[i].uid = uid

C8_PurgedBeforeResolve ==
  \A c \in 1..Len(removals) :
    removals[c].phase = "resolved" =>
      /\ ~HasUid(shapes, removals[c].uid)
      /\ ~HasUid(shapesRef, removals[c].uid)
      /\ ~HasUid(Registry, removals[c].uid)

C8_Witness ==
  \E c \in 1..Len(removals) :
    /\ removals[c].phase = "resolved"
    /\ removals[c].gen = registryGen
    /\ routines[removals[c].owner].status = "running"
    /\ shapes # << >>

\* C9: the lifecycle state of a shape only moves forward along
\* entering -> visible -> exiting.
Rank(st) == IF st = "entering" THEN 0 ELSE IF st = "visible" THEN 1 ELSE 2

\* the registry after the first k queued updaters have been applied
RegistryAfter(k) == applyQueue(shapes, SubSeq(queue, 1, k))

C9_ForwardOnly ==
  \A k \in 1..Len(queue) :
    LET before == RegistryAfter(k - 1)
        after == RegistryAfter(k)
    IN  \A i \in 1..Len(before) : \A j \in 1..Len(after) :
          before[i].uid = after[j].uid =>
            Rank(after[j].state) >= Rank(before[i].state)

\* C10: every shape in the registry has removedAt set exactly when its state
\* is exiting.
C10_RemovedAtIffExiting ==
  \A i \in 1..Len(shapes) :
    (shapes[i].removedAt # NoTime) <=> (shapes[i].state = "exiting")

\* a routine step that adds a shape
AddCalled == nextUid' = nextUid + 1

\* the instruction the running routine is at
RunningInstr ==
  CurrentInstr(CHOOSE r \in 1..Len(routines) : routines[r].status = "running")

\* C11: a newly added shape is the last of the registry, is "entering" exactly
\* when the add was given an entrance spec and "visible" otherwise, carries the
\* time of the add as addedAt, and has no removedAt
C11_NewShapeState ==
  [][AddCalled =>
       LET new == Registry'[Len(Registry')]
       IN  /\ new.uid = nextUid
           /\ new.state = (IF RunningInstr.animIn.defined THEN "entering" ELSE "visible")
           /\ new.addedAt = now
           /\ new.removedAt = NoTime]_vars

\* both cases at once: shapes added at this very time, one with and one
\* without an entrance spec
C11_Witness ==
  \E i, j \in 1..Len(Registry) :
    /\ Registry[i].addedAt = now /\ Registry[j].addedAt = now
    /\ Registry[i].animateIn.defined /\ Registry[i].state = "entering"
    /\ ~Registry[j].animateIn.defined /\ Registry[j].state = "visible"
    /\ Registry[i].removedAt = NoTime /\ Registry[j].removedAt = NoTime

\* a removal whose shape was in the registry at the call and since whose call
\* neither a scene switch nor clearShapes() happened
Undisturbed(c) ==
  /\ removals[c].present
  /\ removals[c].calledGen = registryGen
  /\ ~removals[c].cleared

\* remove() is called by a routine
RemoveCalled == Len(removals') = Len(removals) + 1

\* C12: within one scene and without clearShapes(), a shape removed with an
\* effective exit spec does not leave the registry between the call of
\* remove() and the moment the spec's maximum effect duration has elapsed
\* since that call (a step in the very instant of the call is left aside); a
\* shape removed without an effective exit spec is out of the registry as
\* soon as remove() was called.
C12_StaysUntilExitOver ==
  [][/\ \A c \in 1..Len(removals) :
          ( /\ Undisturbed(c)' /\ removals[c].exitAnim.defined
            /\ HasUid(Registry, removals[c].uid)
            /\ ~HasUid(Registry', removals[c].uid)
            /\ now > removals[c].calledAt )
          => now >= removals[c].calledAt + ExitDuration(removals[c].exitAnim)
     /\ RemoveCalled =>
          LET new == removals'[Len(removals')]
          IN  (new.present /\ ~new.exitAnim.defined) => ~HasUid(Registry', new.uid)
    ]_vars

\* position of the shape with serial number uid in a list of shapes
Pos(ss, uid) == CHOOSE i \in 1..Len(ss) : ss[i].uid = uid

\* the add / remove / add-again routine has passed its last add
ReAdded ==
  /\ scenes = << Scene(NoDuration, ScriptC) >>
  /\ Len(routines) = 1
  /\ routines[1].pc > Len(ScriptC)

\* C13: paint order is insertion order.  Whatever updater is applied, two
\* shapes that both remain keep their relative order and a new shape comes
\* after every shape that was there; draw() paints in creation order; and
\* after add A, add B, remove A, add A the registry is [B, A].
C13_InsertionOrder ==
  /\ \A k \in 1..Len(queue) :
       LET before == RegistryAfter(k - 1)
           after == RegistryAfter(k)
       IN  /\ \A i, j \in 1..Len(before) :
                 (i < j /\ HasUid(after, before[i].uid) /\ HasUid(after, before[j].uid))
                   => Pos(after, before[i].uid) < Pos(after, before[j].uid)
           /\ \A n \in 1..Len(after) :
                 ~HasUid(before, after[n].uid) =>
                   \A i \in 1..Len(after) :
                     HasUid(before, after[i].uid) => i < n
  /\ \A p, q \in 1..Len(lastFrame) : p < q => lastFrame[p] < lastFrame[q]
  /\ ReAdded =>
       /\ Len(Registry) = 2
       /\ Registry[1].uid = routines[1].handleUids[2]
       /\ Registry[2].uid = routines[1].handleUids[1]

\* A was added again and the frame painted since shows B, then A
C13_Witness ==
  /\ ReAdded
  /\ Len(lastFrame) = 2
  /\ lastFrame[1] = routines[1].handleUids[2]
  /\ lastFrame[2] = routines[1].handleUids[1]
  /\ lastFrame[2] > 2

\* ------------------------------------------------------------------------
\* Properties of the tween calculator (TweenSpec)
\* ------------------------------------------------------------------------
\* remove() has been requested for the shape the calculator is applied to
Removing == MapHas(tween.removing, tween.shape.id)

\* opacity 1, offset (0, 0), not terminal
Steady(t) ==
  /\ t.opacity = Whole(1) /\ t.offsetX = Whole(0) /\ t.offsetY = Whole(0)
  /\ ~t.shouldSkip

\* C14: for a shape with neither an entrance nor an exit spec, in every
\* lifecycle state, with or without a requested removal, and at every time,
\* the tween is opacity 1, offset (0, 0), not terminal.
C14_NoSpecIsSteady ==
  ( /\ tween.done
    /\ ~tween.shape.animateIn.defined /\ ~tween.shape.animateOut.defined
    /\ Removing => ~tween.removing[tween.shape.id].animateOut.defined )
  => Steady(tween.result)

\* an exiting shape without specs, long after remove() was requested
C14_Witness ==
  /\ tween.done /\ Removing
  /\ ~tween.shape.animateIn.defined /\ ~tween.shape.animateOut.defined
  /\ ~tween.removing[tween.shape.id].animateOut.defined
  /\ tween.shape.state = "exiting" /\ tween.shape.removedAt = Epoch
  /\ tween.currentTime = Epoch + 700
  /\ Steady(tween.result)

\* the calculator was applied to an entering shape with an entrance spec
Entering ==
  /\ tween.done /\ ~Removing
  /\ tween.shape.state = "entering" /\ tween.shape.animateIn.defined

EnterElapsed == tween.currentTime - tween.shape.addedAt

HasFade(effs) == \E i \in 1..Len(effs) : effs[i].type = "fade"

PositiveDurations(effs) == \A i \in 1..Len(effs) : effs[i].duration > 0

\* the full displacement of an effect along x and along y: left and top are
\* negative, right and bottom positive
FullX(e) ==
  IF e.type # "slide" THEN 0
  ELSE IF e.hasOffset THEN e.x
  ELSE IF e.direction = "left" THEN -e.distance
  ELSE IF e.direction = "right" THEN e.distance
  ELSE 0

FullY(e) ==
  IF e.type # "slide" THEN 0
  ELSE IF e.hasOffset THEN e.y
  ELSE IF e.direction = "top" THEN -e.distance
  ELSE IF e.direction = "bottom" THEN e.distance
  ELSE 0

RECURSIVE SumX(_)
SumX(effs) == IF effs = << >> THEN 0 ELSE FullX(Head(effs)) + SumX(Tail(effs))

RECURSIVE SumY(_)
SumY(effs) == IF effs = << >> THEN 0 ELSE FullY(Head(effs)) + SumY(Tail(effs))

\* the two ends of an entrance: fully hidden and fully offset at elapsed 0,
\* opacity 1 and offset (0, 0) from the largest effect duration on
EntranceEnds ==
  LET effs == tween.shape.animateIn.effects
      t == tween.result
  IN  /\ EnterElapsed = 0 =>
           /\ t.opacity = (IF HasFade(effs) THEN Whole(0) ELSE Whole(1))
           /\ t.offsetX = Whole(SumX(effs))
           /\ t.offsetY = Whole(SumY(effs))
      /\ EnterElapsed >= MaxOfDurations(effs) => Steady(t)

\* C15, as stated: for every entrance spec the tween of an entering shape is
\* fully hidden and fully offset at elapsed 0 and exactly opacity 1, offset
\* (0, 0) at every elapsed >= the largest effect duration.
C15_EntranceEnds == Entering => EntranceEnds

\* C15, amended: the same for every entrance spec whose effects all have a
\* positive duration.
C15_EntranceEndsPositive ==
  (Entering /\ PositiveDurations(tween.shape.animateIn.effects)) => EntranceEnds

\* a fade with a slide from the left, at elapsed 0: hidden, 150 to the left
C15_Witness ==
  /\ Entering /\ EnterElapsed = 0
  /\ tween.shape.animateIn = Anim(<< Fade(600), SlideFrom("left", 150, 700) >>)
  /\ tween.result.opacity = Whole(0)
  /\ tween.result.offsetX = Whole(-150)

\* the exit spec and the start of the exit the calculator goes by: those
\* recorded by remove() in removingShapesRef when there are any, else the shape's
ExitSpec ==
  IF Removing THEN tween.removing[tween.shape.id].animateOut
  ELSE tween.shape.animateOut

ExitElapsed ==
  tween.currentTime -
    (IF Removing THEN tween.removing[tween.shape.id].removedAt ELSE tween.shape.removedAt)

\* the calculator was applied to an exiting shape with an exit spec
Exiting ==
  /\ tween.done
  /\ Removing \/ (tween.shape.state = "exiting" /\ tween.shape.removedAt # NoTime)
  /\ ExitSpec.defined

\* the two ends of an exit: the steady visible state at elapsed 0, the
\* terminal result from the largest effect duration on
ExitEnds ==
  /\ ExitElapsed = 0 => Steady(tween.result)
  /\ ExitElapsed >= MaxOfDurations(ExitSpec.effects) => tween.result.shouldSkip

\* C16, as stated: for every exit spec the tween of an exiting shape is the
\* steady visible state at elapsed 0 and the terminal result at every elapsed
\* >= the largest effect duration.
C16_ExitEnds == Exiting => ExitEnds

\* C16, amended: the same for every exit spec that has at least one effect
\* and whose effects all have a positive duration.
C16_ExitEndsPositive ==
  ( /\ Exiting
    /\ ExitSpec.effects # << >>
    /\ PositiveDurations(ExitSpec.effects) )
  => ExitEnds

\* an exit of a fade of 3 and a slide of 2, at elapsed 3: terminal
C16_Witness ==
  /\ Exiting
  /\ ExitSpec = Anim(<< Fade(3), SlideFrom("right", 3, 2) >>)
  /\ ExitElapsed = 3
  /\ tween.result.shouldSkip

\* elapsed / duration as the code's arithmetic evaluates it (0 / 0 is NaN,
\* x / 0 is Infinity for x > 0), and min(., 1) of it
Quotient(elapsed, duration) ==
  IF duration # 0 THEN Num(elapsed, duration)
  ELSE IF elapsed = 0 THEN NaN
  ELSE [n |-> 1, d |-> 0]

MinWithOne(q) ==
  IF q = NaN THEN NaN
  ELSE IF q.d = 0 \/ q.n >= q.d THEN Whole(1)
  ELSE q

\* product over the fade effects of min(elapsed / duration, 1)
RECURSIVE FadeProduct(_, _)
FadeProduct(effs, elapsed) ==
  IF effs = << >> THEN Whole(1)
  ELSE LET e == Head(effs)
           rest == FadeProduct(Tail(effs), elapsed)
       IN  IF e.type = "fade"
           THEN Times(MinWithOne(Quotient(elapsed, e.duration)), rest)
           ELSE rest

\* sum over the slide effects of (1 - min(elapsed / duration, 1)) times the
\* full displacement along x, and along y
RECURSIVE SlideSumX(_, _)
SlideSumX(effs, elapsed) ==
  IF effs = << >> THEN Whole(0)
  ELSE LET e == Head(effs)
           rest == SlideSumX(Tail(effs), elapsed)
       IN  IF e.type = "slide" /\ (e.hasOffset \/ FullX(e) # 0)
           THEN Plus(Times(Minus(Whole(1), MinWithOne(Quotient(elapsed, e.duration))),
                           Whole(FullX(e))), rest)
           ELSE rest

RECURSIVE SlideSumY(_, _)
SlideSumY(effs, elapsed) ==
  IF effs = << >> THEN Whole(0)
  ELSE LET e == Head(effs)
           rest == SlideSumY(Tail(effs), elapsed)
       IN  IF e.type = "slide" /\ (e.hasOffset \/ FullY(e) # 0)
           THEN Plus(Times(Minus(Whole(1), MinWithOne(Quotient(elapsed, e.duration))),
                           Whole(FullY(e))), rest)
           ELSE rest

FadeAndSlide == Anim(<< Fade(600), SlideFrom("left", 150, 700) >>)

\* C17: the effects of an entrance spec run concurrently and compose: the
\* opacity is the product over the fades of min(elapsed / duration, 1), the
\* offset the sum over the slides of (1 - min(elapsed / duration, 1)) times
\* the full displacement; a fade of 600 with a slide from the left by 150 over
\* 700 gives opacity 350/600 and x-offset -75 at elapsed 350, and opacity 1,
\* offset (0, 0) at elapsed 700.
C17_Composition ==
  Entering =>
    LET effs == tween.shape.animateIn.effects
        t == tween.result
    IN  /\ t.opacity = FadeProduct(effs, EnterElapsed)
        /\ t.offsetX = SlideSumX(effs, EnterElapsed)
        /\ t.offsetY = SlideSumY(effs, EnterElapsed)
        /\ (tween.shape.animateIn = FadeAndSlide /\ EnterElapsed = 350) =>
             /\ t.opacity = Num(350, 600)
             /\ t.offsetX = Whole(-75) /\ t.offsetY = Whole(0)
        /\ (tween.shape.animateIn = FadeAndSlide /\ EnterElapsed = 700) => Steady(t)

\* the example half way: opacity 7/12, 75 to the left
C17_Witness ==
  /\ Entering /\ EnterElapsed = 350
  /\ tween.shape.animateIn = FadeAndSlide
  /\ tween.result.opacity = [n |-> 7, d |-> 12]
  /\ tween.result.offsetX = Whole(-75)

\* ------------------------------------------------------------------------
\* Properties of the scheduler (Spec), continued
\* ------------------------------------------------------------------------
\* routine r belongs to the scene that is current: no nextScene() since it started
OfCurrentScene(r) == r = Len(routines) /\ routines[r].gen = registryGen

DeclaredDuration(r) == scenes[routines[r].scene + 1].duration

Faults(r) == routines[r].status # "faulted" /\ routines'[r].status = "faulted"

\* the shapes routine r created and neither removed nor cleared afterwards
Kept(r) ==
  { routines[r].made[i].uid : i \in
      { i \in 1..Len(routines[r].made) :
          /\ ~\E c \in 1..Len(removals) : removals[c].uid = routines[r].made[i].uid
          /\ ~\E j \in (routines[r].made[i].pc + 1)..(routines[r].pc - 1) :
                Script(r)[j].op = "clear" } }

\* C18: when a scene's routine throws, the scheduler goes on: the step of the
\* fault leaves the registry, the index and the armed timer alone; the shapes
\* the routine added stay in the registry while its scene is current; and the
\* auto-advance of a scene with a declared duration stays armed for, and
\* fires at, the start of the scene plus that duration.
C18_FaultIsContained ==
  /\ [][\A r \in 1..Len(routines) :
          Faults(r) => /\ Registry' = Registry
                       /\ sceneTimer' = sceneTimer
                       /\ currentSceneIndex' = currentSceneIndex
                       /\ pendingIndex' = pendingIndex]_vars
  /\ [](\A r \in 1..Len(routines) :
          (routines[r].status = "faulted" /\ OfCurrentScene(r)) =>
            /\ \A u \in Kept(r) : HasUid(Registry, u)
            /\ DeclaredDuration(r) > 0 =>
                 sceneTimer = [due |-> routines[r].startedAt + DeclaredDuration(r),
                               idx |-> routines[r].scene])
  /\ [][\A r \in 1..Len(routines) :
          (routines[r].status = "faulted" /\ OfCurrentScene(r) /\ NextSceneCalled)
            => now = routines[r].startedAt + DeclaredDuration(r)]_vars

\* the first scene's routine faulted, the second scene started on time all
\* the same, its routine faulted too, and the shape it had added is painted
C18_Witness ==
  /\ Len(routines) = 2
  /\ routines[1].status = "faulted" /\ routines[2].status = "faulted"
  /\ routines[2].startedAt = routines[1].startedAt + DeclaredDuration(1)
  /\ OfCurrentScene(2)
  /\ lastFrame = << routines[2].handleUids[1] >>

\* C19: for every scene that declares a Duration d, the auto-advance is armed
\* when the scene is entered and stays armed for the start of the scene plus
\* d, whatever its routine does (suspended, finished or faulted).
C19_AdvanceArmed ==
  \A r \in 1..Len(routines) :
    (OfCurrentScene(r) /\ DeclaredDuration(r) # NoDuration) =>
      sceneTimer = [due |-> routines[r].startedAt + DeclaredDuration(r),
                    idx |-> routines[r].scene]

Returns(r) == routines[r].status = "running" /\ routines'[r].status = "done"

\* the first scene declares no duration
Undeclared == scenes[1].duration = NoDuration

AccessorCalled(r) ==
  /\ routines[r].status = "running"
  /\ routines[r].pc <= Len(Script(r))
  /\ CurrentInstr(r).op \in Accessors
  /\ routines'[r] # routines[r]

\* C21: a call of getRoughCanvas() or getCanvas() from a scene's routine
\* always fails, with an error that names the accessor and says it is only
\* available during draw, and the step changes nothing of the scheduler or
\* of the registry: only the calling routine ends, faulted.
C21_AccessorFails ==
  [][\A r \in 1..Len(routines) :
       AccessorCalled(r) =>
         /\ routines'[r] =
               [routines[r] EXCEPT
                  !.status = "faulted",
                  !.error = IF CurrentInstr(r).op = "getCanvas"
                            THEN "getCanvas can only be called during draw"
                            ELSE "getRoughCanvas can only be called during draw"]
         /\ \A o \in 1..Len(routines) : o # r => routines'[o] = routines[o]
         /\ Len(routines') = Len(routines)
         /\ UNCHANGED << currentSceneIndex, pendingIndex, shapes, queue, shapesRef,
                         sceneStartTimeRef, sceneExecutedRef, shapeIdCounterRef,
                         shapeMetadataRef, removingShapesRef, sceneTimer, removals,
                         lastFrame, registryGen, now, mounted >>]_vars

\* both accessors have failed: getCanvas() in a routine that outlived its
\* scene, getRoughCanvas() in the routine of the current scene, with shapes
\* in the registry and the auto-advance armed
C21_Witness ==
  /\ Len(routines) >= 2
  /\ routines[1].status = "faulted"
  /\ routines[1].error = "getCanvas can only be called during draw"
  /\ routines[2].status = "faulted"
  /\ routines[2].error = "getRoughCanvas can only be called during draw"
  /\ OfCurrentScene(2)
  /\ Registry # << >>
  /\ sceneTimer.due # NoTime

\* routine r calls getPosition() on one of its handles
GetPositionCalled(r) ==
  /\ routines[r].status = "running"
  /\ routines[r].pc <= Len(Script(r))
  /\ CurrentInstr(r).op = "getPosition"
  /\ routines'[r].pc = routines[r].pc + 1

\* the anchor routine r created the shape uid at
AnchorOf(r, uid) ==
  The({ routines[r].made[i].anchor :
          i \in { i \in 1..Len(routines[r].made) : routines[r].made[i].uid = uid } })

\* C24: getPosition() on a handle returns the anchor its shape was created
\* at, whenever it is called: while the shape enters, after clearShapes(),
\* after the shape was removed, after a scene switch.
C24_PositionIsAnchor ==
  [][\A r \in 1..Len(routines) :
       GetPositionCalled(r) =>
         routines'[r].position =
           AnchorOf(r, routines[r].handleUids[CurrentInstr(r).h])]_vars

\* the shapes routine r added in the same synchronous stretch as its i-th
\* shape and did not remove or clear afterwards
StretchOf(r, i) ==
  { routines[r].made[j].uid : j \in
      { j \in 1..Len(routines[r].made) :
          /\ routines[r].made[j].stretch = routines[r].made[i].stretch
          /\ routines[r].made[j].uid \in Kept(r) } }

WaitCalled(r) ==
  /\ routines[r].status = "running"
  /\ routines[r].pc <= Len(Script(r))
  /\ CurrentInstr(r).op = "wait"
  /\ routines'[r] # routines[r]

\* routine r continues after its wait()
Resumes(r) ==
  /\ routines[r].status = "waiting"
  /\ routines'[r].status = "running"

\* the duration of the wait() routine r is suspended in
WaitedFor(r) == Script(r)[routines[r].pc - 1].d

\* C26: wait(d) suspends the calling routine and nothing else: the call
\* leaves the other routines, the scene timer, the registry and the removals
\* alone; while the routine is suspended the auto-advance stays armed and is
\* never overdue, and a render tick and a due auto-advance can run; the
\* routine continues no earlier than d after the call.
C26_WaitSuspendsCaller ==
  /\ [][\A r \in 1..Len(routines) :
          WaitCalled(r) =>
            /\ routines'[r].status = "waiting"
            /\ routines'[r].wake = now + CurrentInstr(r).d
            /\ \A o \in 1..Len(routines) : o # r => routines'[o] = routines[o]
            /\ UNCHANGED << sceneTimer, currentSceneIndex, pendingIndex, shapes, queue,
                            shapesRef, removals, removingShapesRef, lastFrame >>]_vars
  /\ [](\A r \in 1..Len(routines) :
          routines[r].status = "waiting" =>
            /\ sceneTimer.due # NoTime => now <= sceneTimer.due
            /\ (OfCurrentScene(r) /\ DeclaredDuration(r) > 0) =>
                 sceneTimer = [due |-> routines[r].startedAt + DeclaredDuration(r),
                               idx |-> routines[r].scene]
            /\ (~Running /\ sceneTimer.due # NoTime /\ sceneTimer.due <= now)
                 => ENABLED NextScene
            /\ (~Running /\ Len(queue) + Len(drawUpdates(shapesRef)) <= MaxQueue)
                 => ENABLED Draw)
  /\ [][\A r \in 1..Len(routines) :
          Resumes(r) => now >= routines[r].sleptAt + WaitedFor(r)]_vars

\* a routine still suspended in wait() after its scene has ended: the
\* auto-advance has fired, the next scene's routine has run, and a render
\* tick has painted a shape of that next routine
C26_Witness ==
  /\ Len(routines) >= 2
  /\ routines[1].status = "waiting"
  /\ routines[1].wake > now
  /\ registryGen = 1
  /\ currentSceneIndex = 1
  /\ \E i \in 1..Len(routines[2].made) :
       \E k \in 1..Len(lastFrame) : lastFrame[k] = routines[2].made[i].uid

\* the shape a render tick would process for the handle of removal c: the
\* one in shapesRef with the uid, if it is there
Processed(c) ==
  { i \in 1..Len(shapesRef) : shapesRef[i].uid = removals[c].uid }

\* remove() was called on a shape of the current registry and has not
\* purged it yet, or has purged it without waiting
Requested(c) ==
  /\ removals[c].present
  /\ removals[c].calledGen = registryGen
  /\ ~removals[c].cleared
  /\ removals[c].phase = "anim" \/ removals[c].purgedAt = removals[c].calledAt

\* C27: whenever a render tick can run after remove() was requested, it
\* treats the shape by the pending-removal record: with something to animate
\* the transform is the exit tween of the record's spec at the time elapsed
\* since the request; with nothing to animate the shape is not painted.
C27_DrawnByRemovalRecord ==
  (mounted /\ ~Running) =>
    \A c \in 1..Len(removals) : \A i \in Processed(c) :
      Requested(c) =>
        IF removeDelay(removals[c].exitAnim) > 0
        THEN calculateShapeTransform(shapesRef[i], now, removingShapesRef)
               = calculateExitAnimation(now - removals[c].calledAt, removals[c].exitAnim)
        ELSE ~Painted(shapesRef[i])

\* routine r calls api.clearShapes()
ClearCalled(r) ==
  /\ routines[r].status = "running"
  /\ routines[r].pc <= Len(Script(r))
  /\ CurrentInstr(r).op = "clear"
  /\ routines'[r].pc = routines[r].pc + 1

\* C28: clearShapes() empties the registry and puts the id counter back to
\* its initial value, so the shape added next gets the first id again.
C28_ClearResetsIds ==
  [][\A r \in 1..Len(routines) :
       ClearCalled(r) => /\ Registry' = << >>
                         /\ shapeIdCounterRef' = InitialId]_vars

\* a pending-removal record is there before the step and gone, or another
\* one, after it
RecordLost(id) ==
  /\ MapHas(removingShapesRef, id)
  /\ ~MapHas(removingShapesRef', id) \/ removingShapesRef'[id] # removingShapesRef[id]

\* C29: no clear touches the pending-removal records: clearShapes() and the
\* clear of a scene switch leave removingShapesRef as it is.
C29_ClearKeepsRemovals ==
  [][((\E r \in 1..Len(routines) : ClearCalled(r)) \/ NextSceneCalled)
       => \A id \in DOMAIN removingShapesRef : ~RecordLost(id)]_vars

\* ------------------------------------------------------------------------
\* The value objects Duration and Position
\* ------------------------------------------------------------------------
MaxObjects == 3

\* a / b for b # 0
Over(a, b) ==
  The({ IF isNaN(p[1]) \/ isNaN(p[2]) THEN NaN
        ELSE IF p[2].n < 0 THEN Num(-(p[1].n * p[2].d), p[1].d * (-p[2].n))
        ELSE Num(p[1].n * p[2].d, p[1].d * p[2].n) : p \in {<< a, b >>} })
Less(a, b) == a.n * b.d < b.n * a.d
\* Math.max, Math.min, Math.floor, Math.round, Math.ceil
MaxNum(a, b) == IF Less(a, b) THEN b ELSE a
MinNum(a, b) == IF Less(b, a) THEN b ELSE a
Floor(a) == Whole(a.n \div a.d)
Round(a) == Floor(Plus(a, Num(1, 2)))
Ceil(a) == Times(Whole(-1), Floor(Times(Whole(-1), a)))

\* new Duration(ms), new Position(x, y)
Duration(ms) == [kind |-> "Duration", ms |-> ms, x |-> Whole(0), y |-> Whole(0)]
Position(x, y) == [kind |-> "Position", ms |-> Whole(0), x |-> x, y |-> y]
NoObject == [kind |-> "none", ms |-> Whole(0), x |-> Whole(0), y |-> Whole(0)]

\* the outcome of a call: the object returned, or the error thrown
Returned(v) == [threw |-> FALSE, message |-> NoError, object |-> v]
Thrown(m) == [threw |-> TRUE, message |-> m, object |-> NoObject]

\* the named factories of Duration
milliseconds(v) == Duration(v)
seconds(v) == Duration(Times(v, Whole(1000)))
minutes(v) == Duration(Times(Times(v, Whole(60)), Whole(1000)))
hours(v) == Duration(Times(Times(Times(v, Whole(60)), Whole(60)), Whole(1000)))
zero == Duration(Whole(0))

\* the operations of Duration
durationAdd(a, other) == Returned(Duration(Plus(a.ms, other.ms)))
durationSubtract(a, other) ==
  Returned(Duration(MaxNum(Whole(0), Minus(a.ms, other.ms))))
durationMultiply(a, factor) == Returned(Duration(Times(a.ms, factor)))

durationDivide_unguarded(a, factor) ==
  IF factor = Whole(0) THEN Returned(Duration(NaN))
  ELSE Returned(Duration(Over(a.ms, factor)))

durationDivide(a, factor) ==
  IF factor = Whole(0) THEN Thrown("Cannot divide duration by zero")
  ELSE Returned(Duration(Over(a.ms, factor)))
durationRound(a, how) ==
  Returned(Duration(IF how = "round" THEN Round(a.ms)
                    ELSE IF how = "floor" THEN Floor(a.ms)
                    ELSE Ceil(a.ms)))
durationClamp(a, min, max) ==
  Returned(Duration(MaxNum(min.ms, MinNum(max.ms, a.ms))))

\* Position.divide
positionDivide(p, scalar) ==
  IF scalar = Whole(0) THEN Thrown("Cannot divide position by zero")
  ELSE Returned(Position(Over(p.x, scalar), Over(p.y, scalar)))

\* the arguments the calls are made with
FactoryArgs == { Whole(-1), Whole(0), Whole(2) }
Factors == { Whole(-2), Whole(0), Whole(2) }
Others == { milliseconds(Whole(1)), seconds(Whole(2)) }
Roundings == { "round", "floor", "ceil" }
Durations ==
  { milliseconds(v) : v \in FactoryArgs } \cup { seconds(v) : v \in FactoryArgs }
    \cup { minutes(v) : v \in FactoryArgs } \cup { hours(v) : v \in FactoryArgs }
    \cup { zero }
Positions == { Position(Whole(0), Whole(0)), Position(Whole(3), Whole(-4)) }

NoCall == [op |-> "none", receiver |-> 0, factor |-> Whole(0)]
Call(op, i, f) == [op |-> op, receiver |-> i, factor |-> f]

\* heap lists the objects made so far, error is the message of the error the
\* last call threw, last is that call
ValueInit ==
  /\ scenes = << >>
  /\ loop = FALSE
  /\ tween = NoTween
  /\ canvas = NoCanvas
  /\ factory = NoFactory
  /\ value \in { [heap |-> << o >>, error |-> NoError, last |-> NoCall] :
                   o \in Durations \cup Positions }
  /\ HookInit

\* a call returns a new object, or throws and makes none
Apply(outcome, call) ==
  /\ value' = IF outcome.threw
              THEN [value EXCEPT !.error = outcome.message, !.last = call]
              ELSE [heap |-> Append(value.heap, outcome.object),
                    error |-> NoError, last |-> call]
  /\ UNCHANGED << factory, canvas, tween, hook >>

\* the receiver of a call: an object made before, when no call has failed
Receiver(i, kind) ==
  /\ ~mounted /\ value # NoValue
  /\ value.error = NoError
  /\ Len(value.heap) < MaxObjects
  /\ i \in 1..Len(value.heap)
  /\ value.heap[i].kind = kind

DurationAdd(i) ==
  /\ Receiver(i, "Duration")
  /\ \E o \in Others : Apply(durationAdd(value.heap[i], o), Call("add", i, o.ms))
DurationSubtract(i) ==
  /\ Receiver(i, "Duration")
  /\ \E o \in Others : Apply(durationSubtract(value.heap[i], o), Call("subtract", i, o.ms))
DurationMultiply(i) ==
  /\ Receiver(i, "Duration")
  /\ \E f \in Factors : Apply(durationMultiply(value.heap[i], f), Call("multiply", i, f))
DurationDivide(i) ==
  /\ Receiver(i, "Duration")
  /\ \E f \in Factors : Apply(durationDivide(value.heap[i], f), Call("divide", i, f))
DurationRound(i) ==
  /\ Receiver(i, "Duration")
  /\ \E how \in Roundings : Apply(durationRound(value.heap[i], how), Call(how, i, Whole(0)))
DurationClamp(i) ==
  /\ Receiver(i, "Duration")
  /\ \E min \in Others : \E max \in Others :
       Apply(durationClamp(value.heap[i], min, max), Call("clamp", i, min.ms))
PositionDivide(i) ==
  /\ Receiver(i, "Position")
  /\ \E f \in Factors : Apply(positionDivide(value.heap[i], f), Call("divide", i, f))

ObjectIds == 1..MaxObjects

ValueNext ==
  \/ \E i \in ObjectIds : DurationAdd(i)
  \/ \E i \in ObjectIds : DurationSubtract(i)
  \/ \E i \in ObjectIds : DurationMultiply(i)
  \/ \E i \in ObjectIds : DurationDivide(i)
  \/ \E i \in ObjectIds : DurationRound(i)
  \/ \E i \in ObjectIds : DurationClamp(i)
  \/ \E i \in ObjectIds : PositionDivide(i)

ValueSpec == ValueInit /\ [][ValueNext]_vars

\* the last call was divide(), on a Duration or a Position
Divided == value # NoValue /\ value.last.op = "divide"

\* C22: divide(0) on a Position or a Duration throws, makes no object and
\* leaves every object, the receiver among them, as it was; divide by any
\* other number throws nothing and returns a new object, the receiver
\* divided, again leaving the receiver as it was.
C22_DivideByZeroThrows ==
  [][Divided' =>
       LET call == value'.last
           receiver == value.heap[call.receiver]
       IN  /\ \A i \in 1..Len(value.heap) : value'.heap[i] = value.heap[i]
           /\ IF call.factor = Whole(0)
              THEN /\ value'.heap = value.heap
                   /\ value'.error = IF receiver.kind = "Duration"
                                     THEN "Cannot divide duration by zero"
                                     ELSE "Cannot divide position by zero"
              ELSE /\ value'.error = NoError
                   /\ Len(value'.heap) = Len(value.heap) + 1
                   /\ LET new == value'.heap[Len(value'.heap)]
                      IN  /\ new.kind = receiver.kind
                          /\ Times(new.ms, call.factor) = receiver.ms
                          /\ Times(new.x, call.factor) = receiver.x
                          /\ Times(new.y, call.factor) = receiver.y]_vars

\* Duration.seconds(2) was divided by 2, and the quotient, 1000 ms, by zero
C22_Witness ==
  /\ value # NoValue
  /\ value.heap = << seconds(Whole(2)), milliseconds(Whole(1000)) >>
  /\ value.last = Call("divide", 2, Whole(0))
  /\ value.error = "Cannot divide duration by zero"

\* C23: no Duration has a negative number of milliseconds, however it was
\* made: by a factory or by any sequence of operations on Durations.
C23_NeverNegative ==
  value # NoValue =>
    \A i \in 1..Len(value.heap) :
      value.heap[i].kind = "Duration" => ~Less(value.heap[i].ms, Whole(0))

\* ------------------------------------------------------------------------
\* One render pass: draw() on a registry of shapes with shadows and labels
\* ------------------------------------------------------------------------
MaxShapes == 2

\* shape.shadow after toShadowOptions, shape.label after toLabelOptions
NoShadow == [defined |-> FALSE, type |-> ""]
ShadowOf(type) == [defined |-> TRUE, type |-> type]

\* shadowColor, shadowOffsetX, shadowOffsetY, shadowBlur of the 2D context:
\* as clearShadow leaves them (and as a new context has them), and as
\* renderShadow sets them for a drop shadow
ClearParams == [color |-> "transparent", offsetX |-> 0, offsetY |-> 0, blur |-> 0]
DropParams == [color |-> "shadowOpts.color", offsetX |-> 4, offsetY |-> 4, blur |-> 0]

\* the drawing state of a 2D context, and the context with its stack of
\* saved states
ctxState(c) ==
  [globalAlpha |-> c.globalAlpha, offsetX |-> c.offsetX, offsetY |-> c.offsetY,
   shadow |-> c.shadow, font |-> c.font]
InitialContext ==
  [globalAlpha |-> Whole(1), offsetX |-> Whole(0), offsetY |-> Whole(0),
   shadow |-> ClearParams, font |-> "10px sans-serif", stack |-> << >>]

\* ctx.save(), ctx.restore(), ctx.translate(dx, dy)
save(c) == [c EXCEPT !.stack = Append(@, ctxState(c))]

restore_kept(c) == c

restore(c) ==
  IF c.stack = << >> THEN c
  ELSE [globalAlpha |-> c.stack[Len(c.stack)].globalAlpha,
        offsetX |-> c.stack[Len(c.stack)].offsetX,
        offsetY |-> c.stack[Len(c.stack)].offsetY,
        shadow |-> c.stack[Len(c.stack)].shadow,
        font |-> c.stack[Len(c.stack)].font,
        stack |-> SubSeq(c.stack, 1, Len(c.stack) - 1)]
translate(c, dx, dy) ==
  [c EXCEPT !.offsetX = Plus(@, dx), !.offsetY = Plus(@, dy)]

\* a pass so far: the context, and the calls made on it, each with the shape
\* it was made for and the drawing state it left (painted with)
Logged(c, log, op, uid) ==
  [ctx |-> c, log |-> Append(log, [op |-> op, uid |-> uid, at |-> ctxState(c)])]

\* the shape types renderShadow has a cast shadow for
castSupported(type) == type \in {"rectangle", "circle", "ellipse", "polygon"}
isCastShadow(shadow) ==
  shadow.defined /\ (IF shadow.type = "" THEN "drop" ELSE shadow.type) = "cast"

\* renderShadow: the geometry of a cast shadow, or the parameters of a drop
\* shadow
renderShadow(r, shape) ==
  IF isCastShadow(shape.shadow)
  THEN IF castSupported(shape.type)
       THEN Logged(r.ctx, r.log, "castShadow", shape.uid)
       ELSE r
  ELSE IF shape.shadow.defined
  THEN Logged([r.ctx EXCEPT !.shadow = DropParams], r.log, "shadowParams", shape.uid)
  ELSE r

\* renderShape: the geometry; a text sets the font first
renderShape(r, shape) ==
  Logged(IF shape.type = "text" THEN [r.ctx EXCEPT !.font = "shape.fontSize"] ELSE r.ctx,
         r.log, "shape", shape.uid)

\* clearShadow
clearShadow(r, shape) ==
  Logged([r.ctx EXCEPT !.shadow = ClearParams], r.log, "clearShadow", shape.uid)

\* renderLabel: nothing without a label
renderLabel(r, shape) ==
  IF shape.label
  THEN Logged([r.ctx EXCEPT !.font = "labelOpts.fontSize"], r.log, "label", shape.uid)
  ELSE r

\* the body of shapesRef.current.forEach in draw(), but for the updater it
\* may queue
drawShape(r, shape) ==
  LET transform == calculateShapeTransform(shape, now, removingShapesRef)
      r1 == Logged(save(r.ctx), r.log, "save", shape.uid)
      r2 == Logged([r1.ctx EXCEPT !.globalAlpha = transform.opacity], r1.log,
                   "globalAlpha", shape.uid)
      r3 == Logged(translate(r2.ctx, transform.offsetX, transform.offsetY), r2.log,
                   "translate", shape.uid)
      r4 == renderShadow(r3, shape)
      r5 == renderShape(r4, shape)
      r6 == IF shape.shadow.defined THEN clearShadow(r5, shape) ELSE r5
      r7 == renderLabel(r6, shape)
  IN  IF transform.shouldSkip THEN r
      ELSE Logged(restore(r7.ctx), r7.log, "restore", shape.uid)

RECURSIVE render(_, _)
render(r, ss) ==
  IF ss = << >> THEN r ELSE render(drawShape(r, Head(ss)), Tail(ss))

\* the time of the pass, and the shapes it may find in the registry: steady,
\* half way through a fade and a slide, at the end of a fade, and past the
\* end of the exit
RenderTime == Epoch + 2
Lifecycles ==
  { [state |-> "visible", addedAt |-> Epoch, removedAt |-> NoTime,
     animateIn |-> Undefined, animateOut |-> Undefined],
    [state |-> "entering", addedAt |-> Epoch, removedAt |-> NoTime,
     animateIn |-> Anim(<<Fade(4), SlideFrom("left", 2, 4)>>), animateOut |-> Undefined],
    [state |-> "entering", addedAt |-> Epoch, removedAt |-> NoTime,
     animateIn |-> Anim(<<Fade(1)>>), animateOut |-> Undefined],
    [state |-> "exiting", addedAt |-> Epoch, removedAt |-> Epoch,
     animateIn |-> Undefined, animateOut |-> Anim(<<Fade(1)>>)] }
Looks ==
  { [type |-> "rectangle", shadow |-> NoShadow],
    [type |-> "rectangle", shadow |-> ShadowOf("")],
    [type |-> "rectangle", shadow |-> ShadowOf("cast")],
    [type |-> "text", shadow |-> ShadowOf("cast")] }
RenderShape(i, life, look, label) ==
  [id |-> i, uid |-> i, x |-> 10 * i, y |-> 10 * i,
   state |-> life.state, addedAt |-> life.addedAt, removedAt |-> life.removedAt,
   animateIn |-> life.animateIn, animateOut |-> life.animateOut,
   type |-> look.type, shadow |-> look.shadow, label |-> label]
RenderInputs ==
  UNION { { [i \in 1..n |-> RenderShape(i, f[i][1], f[i][2], f[i][3])] :
              f \in [1..n -> Lifecycles \X Looks \X BOOLEAN] } : n \in 0..MaxShapes }

\* the hook between two routine stretches, with the registry committed
RenderInit ==
  /\ scenes = << >>
  /\ loop = FALSE
  /\ now = RenderTime
  /\ mounted = TRUE
  /\ currentSceneIndex = 0
  /\ pendingIndex = NoIndex
  /\ shapes \in RenderInputs
  /\ queue = << >>
  /\ shapesRef = shapes
  /\ sceneStartTimeRef = Epoch
  /\ sceneExecutedRef = TRUE
  /\ shapeIdCounterRef = Len(shapes)
  /\ shapeMetadataRef = EmptyMap
  /\ removingShapesRef = EmptyMap
  /\ timers = {}
  /\ routines = << >>
  /\ removals = << >>
  /\ lastFrame = << >>
  /\ registryGen = 0
  /\ nextUid = Len(shapes) + 1
  /\ halted = FALSE
  /\ tween = NoTween
  /\ value = NoValue
  /\ factory = NoFactory
  /\ canvas = [done |-> FALSE]

\* draw(): every shape of shapesRef in order, on a new context
RenderPass ==
  /\ mounted /\ ~Running /\ ~canvas.done
  /\ canvas' = [done |-> TRUE,
                ctx |-> render([ctx |-> InitialContext, log |-> << >>], shapesRef).ctx,
                log |-> render([ctx |-> InitialContext, log |-> << >>], shapesRef).log]
  /\ queue' = queue \o drawUpdates(shapesRef)
  /\ lastFrame' = drawFrame(shapesRef)
  /\ UNCHANGED << factory, value, tween, scenes, loop, now, mounted, currentSceneIndex,
                  pendingIndex, shapes, shapesRef, sceneStartTimeRef, sceneExecutedRef,
                  shapeIdCounterRef, shapeMetadataRef, removingShapesRef, timers,
                  routines, removals, registryGen, nextUid, halted >>

RenderNext == RenderPass

RenderSpec == RenderInit /\ [][RenderNext]_vars

\* the calls the claim expects for one shape, by name
ExpectedCalls(shape) ==
  IF ~Painted(shape) THEN << >>
  ELSE << "save", "globalAlpha", "translate" >>
       \o (IF ~shape.shadow.defined THEN << >>
           ELSE IF shape.shadow.type # "cast" THEN << "shadowParams" >>
           ELSE IF castSupported(shape.type) THEN << "castShadow" >>
           ELSE << >>)
       \o << "shape" >>
       \o (IF shape.shadow.defined THEN << "clearShadow" >> ELSE << >>)
       \o (IF shape.label THEN << "label" >> ELSE << >>)
       \o << "restore" >>

RECURSIVE ExpectedLog(_)
ExpectedLog(ss) ==
  IF ss = << >> THEN << >>
  ELSE [k \in 1..Len(ExpectedCalls(Head(ss))) |->
          << ExpectedCalls(Head(ss))[k], Head(ss).uid >>]
       \o ExpectedLog(Tail(ss))

\* the pass has run
Rendered == canvas # NoCanvas /\ canvas.done

\* C30: a render pass goes through the painted shapes in registry order and
\* makes, for each, the calls in the order save, opacity, translation, shadow
\* (cast geometry or drop-shadow parameters), geometry, shadow cleared, label,
\* restore; every shape is painted with its own opacity and offset, its
\* geometry alone with its drop-shadow parameters, and after its restore the
\* context is as it was before the pass.
C30_RenderOrder ==
  Rendered =>
    /\ [k \in 1..Len(canvas.log) |-> << canvas.log[k].op, canvas.log[k].uid >>]
         = ExpectedLog(shapesRef)
    /\ \A k \in 1..Len(canvas.log) :
         LET entry == canvas.log[k]
             shape == shapesRef[entry.uid]
             transform == calculateShapeTransform(shape, now, removingShapesRef)
         IN  /\ entry.op \in {"castShadow", "shape", "label"} =>
                  /\ entry.at.globalAlpha = transform.opacity
                  /\ entry.at.offsetX = transform.offsetX
                  /\ entry.at.offsetY = transform.offsetY
             /\ entry.op \in {"castShadow", "label"} => entry.at.shadow = ClearParams
             /\ entry.op = "shape" =>
                  entry.at.shadow = IF shape.shadow.defined /\ shape.shadow.type # "cast"
                                    THEN DropParams ELSE ClearParams
             /\ entry.op = "restore" => entry.at = ctxState(InitialContext)
    /\ canvas.ctx = InitialContext

\* a pass over two shapes: the first half way through its fade and slide, with
\* a drop shadow and a label, the second steady, without shadow: the second
\* was painted after the first, opaque, in place and without shadow
C30_Witness ==
  /\ Rendered
  /\ Len(shapesRef) = 2
  /\ shapesRef[1].state = "entering" /\ shapesRef[1].shadow = ShadowOf("")
  /\ shapesRef[1].label
  /\ shapesRef[2].state = "visible" /\ shapesRef[2].shadow = NoShadow
  /\ Len(canvas.log) = 13
  /\ canvas.log[5] = [op |-> "shape", uid |-> 1,
                      at |-> [globalAlpha |-> Num(1, 2), offsetX |-> Whole(-1),
                              offsetY |-> Whole(0), shadow |-> DropParams,
                              font |-> "10px sans-serif"]]
  /\ canvas.log[12] = [op |-> "shape", uid |-> 2,
                       at |-> ctxState(InitialContext)]

\* ------------------------------------------------------------------------
\* Properties of the render tick after a removal, and of ids
\* ------------------------------------------------------------------------
\* the exit tween of removal c is over: the time elapsed since the call of
\* remove() has reached the maximum effect duration of its exit spec
ExitOver(c) ==
  /\ removals[c].present
  /\ removals[c].exitAnim.defined
  /\ now - removals[c].calledAt >= ExitDuration(removals[c].exitAnim)

\* C31: a shape whose exit tween is over is not painted by a render tick, also
\* while it is still in what the tick reads, waiting for its purge.
C31_TerminalNotDrawn ==
  (mounted /\ ~Running) =>
    \A c \in 1..Len(removals) : \A i \in Processed(c) :
      ExitOver(c) => ~Painted(shapesRef[i])

\* the shape as a run without any render tick holds it: the state is the one
\* addShape gave it, or "exiting" once the updater of remove() was applied;
\* the entering -> visible updater is the only write of a render tick
Untouched_by_draw(s) ==
  [s EXCEPT !.state = IF s.removedAt # NoTime THEN "exiting"
                      ELSE IF s.animateIn.defined THEN "entering"
                      ELSE "visible"]

\* C32: what a render tick computes for a shape at a time depends on the
\* shape's specs and timestamps and on the time, not on the render ticks
\* before it: the transform (opacity, offset, skip flag) is the one computed
\* in the run of the same script in which no render tick came before.
C32_TickScheduleIndependent ==
  (mounted /\ ~Running) =>
    \A i \in 1..Len(shapesRef) :
      calculateShapeTransform(shapesRef[i], now, removingShapesRef)
        = calculateShapeTransform(Untouched_by_draw(shapesRef[i]), now, removingShapesRef)

\* ------------------------------------------------------------------------
\* The triangle factory: one call of api.triangle, for arguments drawn from
\* the sets below
\* ------------------------------------------------------------------------
\* the anchors are the points (x, y) with x, y in -1 .. MaxAnchor
MaxAnchor == 2

\* the numbers r + s * sqrt(3), r and s fractions; rounding of doubles is
\* left aside
Surd(r, s) == [r |-> r, s |-> s]
Rational(q) == Surd(q, Whole(0))
\* Math.sqrt(3)
Sqrt3 == Surd(Whole(0), Whole(1))
\* a surd times or over a fraction, a fraction plus a surd
SurdTimes(a, k) == Surd(Times(a.r, k), Times(a.s, k))
SurdOver(a, k) == Surd(Over(a.r, k), Over(a.s, k))
SurdPlus(q, a) == Surd(Plus(q, a.r), a.s)

\* value instanceof Position
isPosition(v) == "kind" \in DOMAIN v

\* the overloads of a factory that takes an anchor and a size: (Position,
\* size, options) and (x, y, size, options)
anchorAndSize(positionOrX, yOrSize, sizeOrOptions, optionsOrUndefined) ==
  IF isPosition(positionOrX)
  THEN [x |-> positionOrX.x, y |-> positionOrX.y, size |-> yOrSize,
        options |-> sizeOrOptions]
  ELSE [x |-> positionOrX, y |-> yOrSize, size |-> sizeOrOptions,
        options |-> optionsOrUndefined]

triangleHeight_ofSquare(size) == Rational(size)

\* const height = (Math.sqrt(3) / 2) * size
triangleHeight(size) == SurdTimes(SurdOver(Sqrt3, Whole(2)), size)

\* top point, bottom right, bottom left
trianglePoints(x, y, size) ==
  << << Rational(Plus(x, Over(size, Whole(2)))), Rational(y) >>,
     << Rational(Plus(x, size)), SurdPlus(y, triangleHeight(size)) >>,
     << Rational(x), SurdPlus(y, triangleHeight(size)) >> >>

\* shapeData.x || 0
orZero(v) == IF isNaN(v) \/ v = Whole(0) THEN Whole(0) ELSE v

\* options of a factory call: { animateIn }
Options(ain) == [animateIn |-> ain, animateOut |-> Undefined]

Sizes == { Whole(0), Whole(1), Num(3, 2), Whole(100) }
Anchors == { << Whole(x), Whole(y) >> : x \in -1..MaxAnchor, y \in -1..MaxAnchor }
FactoryInputs ==
  { [args |-> << Position(a[1], a[2]), size, Options(ain), Options(Undefined) >>,
     done |-> FALSE] : a \in Anchors, size \in Sizes, ain \in {Undefined, Anim(<<Fade(1)>>)} }
  \cup
  { [args |-> << a[1], a[2], size, Options(ain) >>,
     done |-> FALSE] : a \in Anchors, size \in Sizes, ain \in {Undefined, Anim(<<Fade(1)>>)} }

\* the hook while a scene routine runs that has made no shape yet
FactoryInit ==
  /\ scenes = << >>
  /\ loop = FALSE
  /\ now = Epoch
  /\ mounted = TRUE
  /\ currentSceneIndex = 0
  /\ pendingIndex = NoIndex
  /\ shapes = << >>
  /\ queue = << >>
  /\ shapesRef = << >>
  /\ sceneStartTimeRef = Epoch
  /\ sceneExecutedRef = TRUE
  /\ shapeIdCounterRef = InitialId
  /\ shapeMetadataRef = EmptyMap
  /\ removingShapesRef = EmptyMap
  /\ timers = {}
  /\ routines = << >>
  /\ removals = << >>
  /\ lastFrame = << >>
  /\ registryGen = 0
  /\ nextUid = 1
  /\ halted = FALSE
  /\ tween = NoTween
  /\ value = NoValue
  /\ canvas = NoCanvas
  /\ factory \in FactoryInputs

\* api.triangle(...): the vertices, then buildShapeWithMetadata and addShape
Triangle ==
  /\ mounted /\ factory # NoFactory /\ ~factory.done
  /\ LET a == anchorAndSize(factory.args[1], factory.args[2], factory.args[3],
                            factory.args[4])
         id == shapeIdCounterRef + 1
         shape == [id |-> id, uid |-> nextUid, x |-> a.x, y |-> a.y,
                   state |-> IF a.options.animateIn.defined THEN "entering" ELSE "visible",
                   addedAt |-> now, removedAt |-> NoTime,
                   animateIn |-> a.options.animateIn,
                   animateOut |-> a.options.animateOut,
                   type |-> "polygon", points |-> trianglePoints(a.x, a.y, a.size)]
     IN  /\ shapeIdCounterRef' = addShapeCounter(id, id)
         /\ shapeMetadataRef' =
              MapSet(shapeMetadataRef, id,
                     [animateOut |-> a.options.animateOut, x |-> orZero(a.x), y |-> orZero(a.y)])
         /\ queue' = Append(queue, UAdd(addShape(shape, now)))
  /\ nextUid' = nextUid + 1
  /\ factory' = [factory EXCEPT !.done = TRUE]
  /\ UNCHANGED << value, canvas, tween, scenes, loop, now, mounted, currentSceneIndex,
                  pendingIndex, shapes, shapesRef, sceneStartTimeRef, sceneExecutedRef,
                  removingShapesRef, timers, routines, removals, lastFrame,
                  registryGen, halted >>

FactoryNext == Triangle

FactorySpec == FactoryInit /\ [][FactoryNext]_vars

\* the square of a surd, a surd minus a fraction
SurdSquare(a) ==
  Surd(Plus(Times(a.r, a.r), Times(Whole(3), Times(a.s, a.s))),
       Times(Whole(2), Times(a.r, a.s)))
SurdMinus(a, q) == Surd(Minus(a.r, q), a.s)

\* a < q for a surd a and a fraction q: s * sqrt(3) < q - r, by the squares
SurdLess(a, q) ==
  LET d == Minus(q, a.r)
      s2 == Times(Whole(3), Times(a.s, a.s))
      d2 == Times(d, d)
  IN  IF ~Less(a.s, Whole(0))
      THEN Less(Whole(0), d) /\ Less(s2, d2)
      ELSE Less(Whole(0), d) \/ Less(d2, s2)

\* a, rounded to one decimal, is q
RoundsTo(a, q) ==
  /\ ~SurdLess(a, Minus(q, Num(1, 20)))
  /\ SurdLess(a, Plus(q, Num(1, 20)))

\* the arguments of the call, whichever overload was used
Called == anchorAndSize(factory.args[1], factory.args[2], factory.args[3], factory.args[4])

\* C33: the triangle factory called with anchor (x, y) and size s stores a
\* polygon whose vertices are (x + s/2, y), (x + s, y + h) and (x, y + h), in
\* this order, where h is the non-negative number whose square is 3/4 of the
\* square of s; for size 100 at (0, 0) they are (50, 0), (100, 86.6) and
\* (0, 86.6), to one decimal.
C33_TriangleVertices ==
  (factory # NoFactory /\ factory.done) =>
    LET stored == Registry[Len(Registry)]
        x == Called.x
        y == Called.y
        s == Called.size
        h == SurdMinus(stored.points[2][2], y)
    IN  /\ stored.type = "polygon"
        /\ Len(stored.points) = 3
        /\ stored.points[1] = << Rational(Plus(x, Over(s, Whole(2)))), Rational(y) >>
        /\ stored.points[2][1] = Rational(Plus(x, s))
        /\ stored.points[3][1] = Rational(x)
        /\ stored.points[3][2] = stored.points[2][2]
        /\ SurdSquare(h) = Rational(Over(Times(Whole(3), Times(s, s)), Whole(4)))
        /\ ~SurdLess(h, Whole(0))
        /\ (x = Whole(0) /\ y = Whole(0) /\ s = Whole(100)) =>
             /\ stored.points[1] = << Rational(Whole(50)), Rational(Whole(0)) >>
             /\ stored.points[2][1] = Rational(Whole(100))
             /\ RoundsTo(stored.points[2][2], Num(866, 10))
             /\ stored.points[3][1] = Rational(Whole(0))
             /\ RoundsTo(stored.points[3][2], Num(866, 10))

\* the scenario of the claim, with the anchor given as a Position
C33_Witness ==
  /\ factory # NoFactory /\ factory.done
  /\ factory.args[1] = Position(Whole(0), Whole(0)) /\ factory.args[2] = Whole(100)
  /\ Len(Registry) = 1
  /\ Registry[1].id = 1
  /\ Registry[1].points = << << Rational(Whole(50)), Rational(Whole(0)) >>,
                             << Rational(Whole(100)), Surd(Whole(0), Whole(50)) >>,
                             << Rational(Whole(0)), Surd(Whole(0), Whole(50)) >> >>

\* no two shapes of a list have the same id
DistinctIds(ss) == \A i, j \in 1..Len(ss) : i # j => ss[i].id # ss[j].id

\* the shapes created so far, by any routine
Made == UNION { { routines[r].made[i] : i \in 1..Len(routines[r].made) } :
                  r \in 1..Len(routines) }

\* C34: at every moment the shapes of the registry have pairwise distinct
\* ids (in the committed state, in what the render tick reads and with the
\* queued updates applied), and between two scene switches every new shape
\* gets an id greater than the ids given before.
C34_DistinctIds ==
  /\ DistinctIds(shapes) /\ DistinctIds(shapesRef) /\ DistinctIds(Registry)
  /\ \A a, b \in Made : (a.gen = b.gen /\ a.uid < b.uid) => a.id < b.id

\* after a scene switch the routine of the earlier scene has added a shape
\* next to the ones of the current scene, and got the third id
C34_Witness ==
  /\ registryGen = 1
  /\ Len(Registry) = 2
  /\ Registry[1].id = 2
  /\ \E r \in 1..Len(routines) : \E i \in 1..Len(routines[r].made) :
       /\ routines[r].gen = 0
       /\ routines[r].made[i].gen = 1
       /\ routines[r].made[i].id = 3
       /\ Registry[2].uid = routines[r].made[i].uid

\* the exit spec the shape of removal c was created with: the one of the
\* factory call of its routine that made the shape
CreatedWith(c) ==
  LET r == removals[c].owner
      i == CHOOSE k \in 1..Len(routines[r].made) :
             routines[r].made[k].uid = removals[c].uid
  IN  Script(r)[routines[r].made[i].pc].animOut

\* the override passed to remove() when one is given, else the exit spec
\* supplied at creation
EffectiveSpec(c) ==
  IF removals[c].override.defined THEN removals[c].override ELSE CreatedWith(c)

\* the exit spec a render tick uses for a shape, if it computes an exit tween
\* for it: the one of the pending-removal record, else the one of the shape
\* in state exiting
TweenSpecOf(shape) ==
  IF MapHas(removingShapesRef, shape.id)
  THEN removingShapesRef[shape.id].animateOut
  ELSE shape.animateOut

ExitTweened(shape) ==
  \/ MapHas(removingShapesRef, shape.id)
  \/ shape.state = "exiting" /\ shape.removedAt # NoTime /\ shape.animateOut.defined

\* C35: for a removal of a shape that is in the registry, the exit spec in
\* force is the override passed to remove() when one is given and otherwise
\* the exit spec supplied at creation, and this one spec is used by all
\* three: a render tick that computes an exit tween for the shape computes it
\* from this spec, the purge of remove() comes its maximum effect duration
\* after the call, and the completion resolves the settle delay after that.
C35_OneEffectiveSpec ==
  \A c \in 1..Len(removals) :
    removals[c].present =>
      /\ removals[c].exitAnim = EffectiveSpec(c)
      /\ (mounted /\ ~Running) =>
           \A i \in Processed(c) :
             ExitTweened(shapesRef[i]) => TweenSpecOf(shapesRef[i]) = EffectiveSpec(c)
      /\ removals[c].phase = "anim" =>
           /\ removals[c].due = removals[c].calledAt + ExitDuration(EffectiveSpec(c))
           /\ now <= removals[c].due
      /\ removals[c].phase \in {"settle", "resolved"} =>
           removals[c].purgedAt
             = removals[c].calledAt + Max2(ExitDuration(EffectiveSpec(c)), 0)
      /\ removals[c].phase = "settle" =>
           /\ removals[c].due = removals[c].purgedAt + SettleDelay
           /\ now <= removals[c].due
      /\ removals[c].phase = "resolved" =>
           removals[c].resolvedAt = removals[c].purgedAt + SettleDelay

\* remove() is called on the shape of removal c while c waits for its exit
\* timer: the shape is already exiting
SecondRemove(c) ==
  /\ RemoveCalled
  /\ removals[c].present /\ removals[c].phase = "anim"
  /\ removals'[Len(removals')].uid = removals[c].uid

\* C36: a second call of remove() on a shape that is already exiting changes
\* nothing of the exit under way: the shape keeps its removedAt and its exit
\* spec, in the registry and in the pending-removal record, and the purge of
\* the first call stays due at the same time.
C36_SecondRemoveIsNoOp ==
  [][\A c \in 1..Len(removals) :
       SecondRemove(c) =>
         /\ \A i \in 1..Len(Registry) :
              Registry[i].uid = removals[c].uid =>
                \E j \in 1..Len(Registry') :
                  /\ Registry'[j].uid = Registry[i].uid
                  /\ Registry'[j].removedAt = Registry[i].removedAt
                  /\ Registry'[j].animateOut = Registry[i].animateOut
         /\ removingShapesRef' = removingShapesRef
         /\ removals'[c].due = removals[c].due]_vars

\* serial numbers of the shapes a run can create
ShapeUids == 1..(2 * MaxTime)

\* shape uid of the registry has an entrance spec and is in the given state
InState(uid, st) ==
  \E i \in 1..Len(Registry) :
    /\ Registry[i].uid = uid /\ Registry[i].animateIn.defined
    /\ Registry[i].state = st

\* the entrance of shape uid is over and the shape is still entering
EntranceOver(uid) ==
  \E i \in 1..Len(Registry) :
    /\ Registry[i].uid = uid /\ Registry[i].animateIn.defined
    /\ Registry[i].state = "entering"
    /\ now - Registry[i].addedAt >= MaxOfDurations(Registry[i].animateIn.effects)

\* C37: with render ticks going on, a shape added with an entrance spec
\* leaves state entering once its longest entrance effect is over: unless it
\* is removed or cleared it becomes visible; it is not visible before that
\* time, and a visible shape stays visible until remove() is called.
C37_EnteringBecomesVisible ==
  /\ \A uid \in ShapeUids :
       EntranceOver(uid) ~>
         (InState(uid, "visible") \/ InState(uid, "exiting") \/ ~HasUid(Registry, uid))
  /\ [](\A i \in 1..Len(Registry) :
          (Registry[i].animateIn.defined /\ Registry[i].state = "visible") =>
             now - Registry[i].addedAt >= MaxOfDurations(Registry[i].animateIn.effects))
  /\ [][\A i \in 1..Len(Registry) : \A j \in 1..Len(Registry') :
          ( /\ Registry'[j].uid = Registry[i].uid
            /\ Registry[i].state = "visible" /\ Registry'[j].state # "visible" )
          => RemoveCalled]_vars

\* a shape that entered with a fade and was never removed is visible when
\* the explored time ends, and the last tick painted it
C37_Witness ==
  /\ now = MaxTime
  /\ \E i \in 1..Len(shapes) :
       /\ shapes[i].animateIn.defined /\ shapes[i].state = "visible"
       /\ shapes[i].removedAt = NoTime
       /\ ~\E c \in 1..Len(removals) : removals[c].uid = shapes[i].uid
       /\ \E k \in 1..Len(lastFrame) : lastFrame[k] = shapes[i].uid

\* the step is one of removal c: the call of remove(), or its purge when the
\* exit timer fires
ActsIn(c) ==
  \/ RemoveCalled /\ c = Len(removals')
  \/ c <= Len(removals) /\ removals[c].phase = "anim" /\ removals'[c].phase = "settle"

\* C38: a handle acts on the shape it was created for only: no step of a
\* removal marks as exiting, deletes or drops the metadata of a shape made
\* by another factory call, before or after a scene switch.
C38_HandleIsolation ==
  [][\A c \in 1..Len(removals') :
       ActsIn(c) =>
         \A i \in 1..Len(Registry) :
           Registry[i].uid # removals'[c].uid =>
             /\ \E j \in 1..Len(Registry') : Registry'[j] = Registry[i]
             /\ MapHas(shapeMetadataRef, Registry[i].id)
                  => MapHas(shapeMetadataRef', Registry[i].id)]_vars

\* ------------------------------------------------------------------------
\* The scene timer and scene entries
\* ------------------------------------------------------------------------
\* the scene entries so far: the runs of the scene effect that started a scene
SceneEntries == Len(routines)

\* t was armed by the latest scene entry, for the committed scene, and no
\* nextScene() has been called since that entry
OfCurrentEntry(t) ==
  /\ t.entry = SceneEntries
  /\ t.idx = currentSceneIndex
  /\ t.idx = routines[t.entry].scene
  /\ registryGen = t.entry - 1
  /\ pendingIndex = NoIndex

\* C39: at any instant at most one scene timeout is pending and it belongs to
\* the current scene entry; the timeout that calls nextScene() is that one,
\* so a timeout of an earlier entry never fires after the scheduler has
\* advanced, and each scene entry causes at most one advance
C39_OneTimerPerEntry ==
  /\ [](Cardinality(timers) <= 1)
  /\ [](\A t \in timers : OfCurrentEntry(t))
  /\ [](registryGen <= SceneEntries)
  /\ [][NextSceneCalled
          => /\ \E t \in timers : /\ OfCurrentEntry(t)
                                  /\ t.due <= now
                                  /\ timers' = {}
             /\ registryGen' = SceneEntries]_vars

\* the second scene's timeout is pending after the first scene's has fired
C39_Witness ==
  /\ registryGen = 1
  /\ SceneEntries = 2
  /\ currentSceneIndex = 1
  /\ \E t \in timers : t.entry = 2 /\ t.idx = 1 /\ t.due > now

====
